---------------------------- MODULE Spec2Model ----------------------------
(***************************************************************************)
(* A model of the dentist scraper (src/scripts/dentist_scraper.js): the    *)
(* run() pipeline of GoogleMapsScraper, its two scroll loops, the per-item *)
(* extraction with its error paths, the keyword annotation and the         *)
(* artifact writer.                                                        *)
(*                                                                         *)
(* Texts are sequences of one-character strings, so that the regular       *)
(* expressions, indexOf, substring, split and trim of the source are       *)
(* computed character by character.                                        *)
(***************************************************************************)
EXTENDS Integers, Sequences, FiniteSets, TLC

---------------------------------------------------------------------------
(* Bounds of the model.  The first three are the source's configuration    *)
(* values scaled down (50, 30 and 10 in the source).                       *)

\* maxResults, the target of the result-list loop and the cap on items
MAX_RESULTS == 2

\* the target of the review loop and the cap on reviews per entity
MAX_REVIEWS_PER_DENTIST == 2

\* the idle-round cap of the review loop
maxScrollAttempts == 2

\* exceptions the page automation may raise in one run, beyond missing elements
MaxFaults == 1

\* the largest count a feed can show: one more than the larger target
MaxFeed == (IF MAX_RESULTS > MAX_REVIEWS_PER_DENTIST
            THEN MAX_RESULTS ELSE MAX_REVIEWS_PER_DENTIST) + 1

\* getContext's default contextSize
contextSize == 100

---------------------------------------------------------------------------
(* Characters and strings *)

UpperSet == {"A","B","C","D","E","F","G","H","I","J","K","L","M",
             "N","O","P","Q","R","S","T","U","V","W","X","Y","Z"}

LowerSet == {"a","b","c","d","e","f","g","h","i","j","k","l","m",
             "n","o","p","q","r","s","t","u","v","w","x","y","z"}

Digits == {"0","1","2","3","4","5","6","7","8","9"}

WordChars == UpperSet \cup LowerSet \cup Digits \cup {"_"}

LowerOf ==
  [c \in UpperSet |->
     CASE c = "A" -> "a" [] c = "B" -> "b" [] c = "C" -> "c" [] c = "D" -> "d"
       [] c = "E" -> "e" [] c = "F" -> "f" [] c = "G" -> "g" [] c = "H" -> "h"
       [] c = "I" -> "i" [] c = "J" -> "j" [] c = "K" -> "k" [] c = "L" -> "l"
       [] c = "M" -> "m" [] c = "N" -> "n" [] c = "O" -> "o" [] c = "P" -> "p"
       [] c = "Q" -> "q" [] c = "R" -> "r" [] c = "S" -> "s" [] c = "T" -> "t"
       [] c = "U" -> "u" [] c = "V" -> "v" [] c = "W" -> "w" [] c = "X" -> "x"
       [] c = "Y" -> "y" [] c = "Z" -> "z"]

\* String.prototype.toLowerCase on one character
LowerChar(c) == IF c \in UpperSet THEN LowerOf[c] ELSE c

toLowerCase(s) == [k \in DOMAIN s |-> LowerChar(s[k])]

\* a word character of a regular expression: [A-Za-z0-9_]
IsWordChar(c) == c \in WordChars

\* s.substring(a, b) with 0-based a (inclusive) and b (exclusive), a <= b
substring(s, a, b) == SubSeq(s, a + 1, b)

\* whether sub occurs in s at 0-based position p
OccursAt(s, sub, p) ==
  /\ p >= 0
  /\ p + Len(sub) <= Len(s)
  /\ \A k \in 1..Len(sub) : s[p + k] = sub[k]

\* the first 0-based position from p on where sub occurs in s, or -1
IndexFrom(s, sub, p) ==
  LET hits == { q \in p..(Len(s) - Len(sub)) : OccursAt(s, sub, q) }
  IN  IF hits = {} THEN -1 ELSE CHOOSE q \in hits : \A o \in hits : q <= o

\* s.indexOf(sub)
indexOf(s, sub) == IndexFrom(s, sub, 0)

\* s.includes(sub)
includes(s, sub) == indexOf(s, sub) # -1

RECURSIVE TrimLeft(_)
TrimLeft(s) == IF s # << >> /\ Head(s) = " " THEN TrimLeft(Tail(s)) ELSE s

RECURSIVE TrimRight(_)
TrimRight(s) ==
  IF s # << >> /\ s[Len(s)] = " " THEN TrimRight(SubSeq(s, 1, Len(s) - 1)) ELSE s

\* String.prototype.trim
trim(s) == TrimRight(TrimLeft(s))

---------------------------------------------------------------------------
(* The keyword taxonomy and its compiled patterns *)

NEURODIVERGENT_KEYWORDS == <<
  <<"n","e","u","r","o","d","i","v","e","r","g","e","n","t">>,
  <<"n","e","u","r","o","d","i","v","e","r","s","i","t","y">>,
  <<"N","D">>,
  <<"a","u","t","i","s","m">>,
  <<"a","u","t","i","s","t","i","c">>,
  <<"A","s","p","e","r","g","e","r","'","s">>,
  <<"A","D","H","D">>,
  <<"a","t","t","e","n","t","i","o","n"," ","d","e","f","i","c","i","t"," ","h","y","p","e","r","a","c","t","i","v","i","t","y"," ","d","i","s","o","r","d","e","r">>,
  <<"s","e","n","s","o","r","y"," ","p","r","o","c","e","s","s","i","n","g"," ","d","i","s","o","r","d","e","r">>,
  <<"S","P","D">>,
  <<"s","e","n","s","o","r","y"," ","s","e","n","s","i","t","i","v","i","t","i","e","s">>,
  <<"T","o","u","r","e","t","t","e","'","s">>,
  <<"s","p","e","c","i","a","l"," ","n","e","e","d","s">>,
  <<"d","e","v","e","l","o","p","m","e","n","t","a","l"," ","d","i","s","a","b","i","l","i","t","i","e","s">>,
  <<"a","n","x","i","e","t","y">>,
  <<"f","e","a","r","f","u","l"," ","p","a","t","i","e","n","t","s">>,
  <<"p","a","t","i","e","n","t"," ","u","n","d","e","r","s","t","a","n","d","i","n","g">>,
  <<"c","a","l","m"," ","d","e","n","t","i","s","t">>,
  <<"g","e","n","t","l","e"," ","d","e","n","t","i","s","t">>,
  <<"c","o","m","p","a","s","s","i","o","n","a","t","e"," ","d","e","n","t","i","s","t">>,
  <<"p","e","d","i","a","t","r","i","c"," ","a","u","t","i","s","m">>,
  <<"c","h","i","l","d","r","e","n"," ","w","i","t","h"," ","s","p","e","c","i","a","l"," ","n","e","e","d","s">> >>

\* KEYWORD_PATTERNS, lines 40-42: each keyword compiled to /\bkeyword\b/i.
\* The escaping of line 41 makes every character of the keyword match
\* itself; the flag i makes letters match without regard to case, which a
\* pattern holds as its keyword in lower case
KEYWORD_PATTERNS ==
  [n \in DOMAIN NEURODIVERGENT_KEYWORDS |-> toLowerCase(NEURODIVERGENT_KEYWORDS[n])]

\* a pattern without its two \b assertions
WordBoundaryAnywhere(text, q) == TRUE

\* the assertion \b between 0-based positions q-1 and q of text
WordBoundary(text, q) ==
  LET before == q >= 1 /\ IsWordChar(text[q])
      after  == q < Len(text) /\ IsWordChar(text[q + 1])
  IN  before # after

\* whether the pattern matches at 0-based position p of the text, given in
\* lower case
PatternMatchesAt(lowered, pattern, p) ==
  /\ p + Len(pattern) <= Len(lowered)
  /\ \A k \in 1..Len(pattern) : lowered[p + k] = pattern[k]
  /\ WordBoundary(lowered, p)
  /\ WordBoundary(lowered, p + Len(pattern))

\* the 0-based position of the leftmost match from p on, or -1
MatchFrom(lowered, pattern, p) ==
  LET hits == { q \in p..(Len(lowered) - Len(pattern)) :
                  PatternMatchesAt(lowered, pattern, q) }
  IN  IF hits = {} THEN -1 ELSE CHOOSE q \in hits : \A o \in hits : q <= o

\* text.match(pattern): the 0-based position of the leftmost match, or -1
\* (null)
PatternMatch(text, pattern) == MatchFrom(toLowerCase(text), pattern, 0)

---------------------------------------------------------------------------
(* getContext *)

\* the loop of lines 710-712: move start left to the nearest space or to 0
RECURSIVE BackToSpace(_, _)
BackToSpace(text, start) ==
  IF start > 0 /\ text[start + 1] # " " THEN BackToSpace(text, start - 1) ELSE start

\* the loop of lines 717-719: move end right to the nearest space or the end
RECURSIVE ForwardToSpace(_, _)
ForwardToSpace(text, end) ==
  IF end < Len(text) /\ text[end + 1] # " " THEN ForwardToSpace(text, end + 1) ELSE end

Max(a, b) == IF a > b THEN a ELSE b

Min(a, b) == IF a < b THEN a ELSE b

getContext(text, keyword, size) ==
  LET keywordPos == indexOf(toLowerCase(text), toLowerCase(keyword))
      start0 == Max(0, keywordPos - size)
      end0   == Min(Len(text), keywordPos + Len(keyword) + size)
      start  == IF start0 > 0 THEN BackToSpace(text, start0) + 1 ELSE start0
      end    == IF end0 < Len(text) THEN ForwardToSpace(text, end0) ELSE end0
  IN  IF keywordPos = -1 THEN << >> ELSE trim(substring(text, start, end))

---------------------------------------------------------------------------
(* analyzeSentiment *)

\* The package `sentiment` is not part of the repository.  Its analyze()
\* splits the text into tokens, sums the valences its word list gives them
\* and returns that sum with the tokens; comparative is the sum divided by
\* the number of tokens, and a text without a word has the one token "" and
\* the sum 0.  A result is held here as [score, tokens] with tokens the
\* number of tokens.

\* an excerpt of the word list
Valence(word) ==
  CASE word = <<"g","o","o","d">> -> 3
    [] word = <<"g","r","e","a","t">> -> 3
    [] word = <<"c","a","l","m">> -> 2
    [] word = <<"c","a","r","e">> -> 2
    [] word = <<"a","n","x","i","e","t","y">> -> -2
    [] OTHER -> 0

\* the tokens of a text: its runs of characters other than the space, in
\* lower case, in the order of the text
RECURSIVE Tokens(_, _, _)
Tokens(text, k, word) ==
  IF k > Len(text) THEN (IF word = << >> THEN << >> ELSE << word >>)
  ELSE IF text[k] = " "
  THEN (IF word = << >> THEN << >> ELSE << word >>) \o Tokens(text, k + 1, << >>)
  ELSE Tokens(text, k + 1, Append(word, LowerChar(text[k])))

RECURSIVE SumValence(_, _)
SumValence(words, k) ==
  IF k > Len(words) THEN 0 ELSE Valence(words[k]) + SumValence(words, k + 1)

\* sentiment.analyze(text), line 731
Analyze(text) ==
  LET words == Tokens(text, 1, << >>)
  IN  [score |-> SumValence(words, 1), tokens |-> Max(1, Len(words))]

Abs(n) == IF n < 0 THEN -n ELSE n

\* parseFloat(score.toFixed(2)) of the comparative value score / tokens, in
\* hundredths.  toFixed takes the nearest hundredth and, of two equally
\* near, the one of larger magnitude.  A quotient that lies exactly between
\* two hundredths has, in lowest terms, the denominator 8, 40 or 200; with
\* fewer than 40 tokens it is 8, and a double holds a multiple of 1/8
\* exactly.
ToFixed2(score, tokens) ==
  LET whole == (Abs(score) * 100) \div tokens
      rest  == (Abs(score) * 100) % tokens
      n     == IF 2 * rest >= tokens THEN whole + 1 ELSE whole
  IN  IF score < 0 THEN -n ELSE n

\* lines 732-746 with >= 0.05 and <= -0.05 as the thresholds
analyzeSentimentInclusive(result) ==
  [category |-> IF 20 * result.score >= result.tokens THEN "Positive"
                ELSE IF 20 * result.score <= -result.tokens THEN "Negative"
                ELSE "Neutral",
   score |-> ToFixed2(result.score, result.tokens)]

\* lines 732-746, for result = sentiment.analyze(text): comparative is
\* result.score / result.tokens, so comparative > 0.05 is
\* 20 * score > tokens; score is in hundredths
analyzeSentiment(result) ==
  [category |-> IF 20 * result.score > result.tokens THEN "Positive"
                ELSE IF 20 * result.score < -result.tokens THEN "Negative"
                ELSE "Neutral",
   score |-> ToFixed2(result.score, result.tokens)]

---------------------------------------------------------------------------
(* checkForNeurodivergentMentions: the scan of one text *)

\* the loop of lines 622-644 with the patterns taken last to first
RECURSIVE ScanPatternsReversed(_, _)
ScanPatternsReversed(text, n) ==
  IF n > Len(KEYWORD_PATTERNS) THEN << >>
  ELSE LET pattern == KEYWORD_PATTERNS[n]
           pos     == PatternMatch(text, pattern)
           keyword == substring(text, pos, pos + Len(pattern))
           context == getContext(text, keyword, contextSize)
           sentimentAnalysis == analyzeSentiment(Analyze(context))
       IN  IF pos = -1 THEN ScanPatternsReversed(text, n + 1)
           ELSE ScanPatternsReversed(text, n + 1)
                \o << [keyword |-> keyword,
                       context |-> context,
                       sentiment |-> sentimentAnalysis.category,
                       sentiment_score |-> sentimentAnalysis.score] >>

\* the mentions one text yields: the loop over KEYWORD_PATTERNS of lines
\* 622-644 (and 651-685), from pattern n on; keyword is match[0]
RECURSIVE ScanPatterns(_, _)
ScanPatterns(text, n) ==
  IF n > Len(KEYWORD_PATTERNS) THEN << >>
  ELSE LET pattern == KEYWORD_PATTERNS[n]
           pos     == PatternMatch(text, pattern)
           keyword == substring(text, pos, pos + Len(pattern))
           context == getContext(text, keyword, contextSize)
           sentimentAnalysis == analyzeSentiment(Analyze(context))
       IN  IF pos = -1 THEN ScanPatterns(text, n + 1)
           ELSE << [keyword |-> keyword,
                    context |-> context,
                    sentiment |-> sentimentAnalysis.category,
                    sentiment_score |-> sentimentAnalysis.score] >>
                \o ScanPatterns(text, n + 1)

\* the guard `if (description)` / `if (comment)`: an empty text is not scanned
ScanText(text) == IF text = << >> THEN << >> ELSE ScanPatterns(text, 1)

WithSource(ms, src) ==
  [k \in DOMAIN ms |->
     [keyword |-> ms[k].keyword, context |-> ms[k].context, source |-> src,
      sentiment |-> ms[k].sentiment, sentiment_score |-> ms[k].sentiment_score]]

\* lines 672-683 with the reviews taken last to first
RECURSIVE ReviewMentionsLastFirst(_, _, _)
ReviewMentionsLastFirst(reviews, found, r) ==
  IF r > Len(reviews) THEN << >>
  ELSE ReviewMentionsLastFirst(reviews, found, r + 1)
       \o WithSource(found[r], <<"R","e","v","i","e","w"," ","b","y"," ">> \o reviews[r].author)

\* the entity-level mentions the reviews add (lines 672-683), from review r on
RECURSIVE ReviewMentions(_, _, _)
ReviewMentions(reviews, found, r) ==
  IF r > Len(reviews) THEN << >>
  ELSE WithSource(found[r], <<"R","e","v","i","e","w"," ","b","y"," ">> \o reviews[r].author)
       \o ReviewMentions(reviews, found, r + 1)

hasMentionsInDescriptionOnly(inDescription, inReviews) == inDescription # << >>

\* hasMentions of line 617, as set by lines 626 and 655: a pattern matched
\* the description or the comment of a review
hasMentions(inDescription, inReviews) ==
  \/ inDescription # << >>
  \/ \E r \in DOMAIN inReviews : inReviews[r] # << >>

---------------------------------------------------------------------------
(* Numbers as text *)

DigitChars == <<"0","1","2","3","4","5","6","7","8","9">>

\* String(n) for a natural number n
RECURSIVE String(_)
String(n) == IF n < 10 THEN << DigitChars[n + 1] >>
             ELSE String(n \div 10) \o << DigitChars[(n % 10) + 1] >>

\* the number a run of decimal digits writes
RECURSIVE DigitsValue(_)
DigitsValue(digits) ==
  IF digits = << >> THEN 0
  ELSE 10 * DigitsValue(SubSeq(digits, 1, Len(digits) - 1))
       + (CHOOSE v \in 0..9 : DigitChars[v + 1] = digits[Len(digits)])

\* NaN, which parseFloat gives for a text that starts with no number: held
\* as an integer no number of a page takes
NaN == -999999999

\* the length of the run of characters of `class` that starts at 1-based
\* position `from`
RECURSIVE RunLength(_, _, _)
RunLength(str, from, class) ==
  IF from > Len(str) \/ str[from] \notin class THEN 0
  ELSE 1 + RunLength(str, from + 1, class)

Pow10(n) == IF n <= 0 THEN 1 ELSE IF n = 1 THEN 10 ELSE IF n = 2 THEN 100
            ELSE IF n = 3 THEN 1000 ELSE 10000

\* parseFloat(str), in ten-thousandths: an optional sign, digits, and after
\* a point more digits, as far as they go; what follows is ignored.  The
\* texts of the pages carry at most four decimals.
parseFloat(str) ==
  LET neg      == Len(str) > 0 /\ str[1] = "-"
      from     == IF neg THEN 2 ELSE 1
      intLen   == RunLength(str, from, Digits)
      point    == from + intLen
      hasPoint == point <= Len(str) /\ str[point] = "."
      fracLen  == IF hasPoint THEN Min(4, RunLength(str, point + 1, Digits)) ELSE 0
      whole    == DigitsValue(SubSeq(str, from, from + intLen - 1))
      frac     == DigitsValue(SubSeq(str, point + 1, point + fracLen)) * Pow10(4 - fracLen)
      value    == whole * 10000 + frac
  IN  IF intLen = 0 /\ fracLen = 0 THEN NaN
      ELSE IF neg THEN -value ELSE value

---------------------------------------------------------------------------
(* Hours *)

Days == { <<"M","o","n","d","a","y">>, <<"T","u","e","s","d","a","y">>, <<"W","e","d","n","e","s","d","a","y">>, <<"T","h","u","r","s","d","a","y">>,
          <<"F","r","i","d","a","y">>, <<"S","a","t","u","r","d","a","y">>, <<"S","u","n","d","a","y">> }

getDefaultHours ==
  [d \in Days |->
     IF d \in { <<"S","a","t","u","r","d","a","y">>, <<"S","u","n","d","a","y">> } THEN <<"C","l","o","s","e","d">>
     ELSE <<"9",":","0","0"," ","A","M"," ","-"," ","5",":","0","0"," ","P","M">>]

\* dayText.split(':'): the first two parts, when there are at least two
SplitRow(dayText) ==
  LET c1   == indexOf(dayText, <<":">>)
      rest == substring(dayText, c1 + 1, Len(dayText))
      c2   == indexOf(rest, <<":">>)
  IN  [parts2 |-> c1 # -1,
       day    |-> IF c1 = -1 THEN << >> ELSE trim(substring(dayText, 0, c1)),
       hour   |-> IF c1 = -1 THEN << >>
                  ELSE trim(IF c2 = -1 THEN rest ELSE substring(rest, 0, c2))]

\* the loop over the table rows of lines 359-367, from row r on
RECURSIVE ParseRows(_, _, _)
ParseRows(rows, r, hours) ==
  IF r > Len(rows) THEN hours
  ELSE LET row == SplitRow(rows[r])
       IN  IF row.parts2
           THEN ParseRows(rows, r + 1,
                  [d \in (DOMAIN hours) \cup {row.day} |->
                     IF d = row.day THEN row.hour ELSE hours[d]])
           ELSE ParseRows(rows, r + 1, hours)

NoHours == [d \in {} |-> << >>]

\* lines 349-383: the hours of the page in focus; hoursFault is whether a
\* step of the block raised
ExtractHours(pane, hoursFault) ==
  IF hoursFault THEN getDefaultHours
  ELSE IF pane.hoursButton
       THEN LET hours == ParseRows(pane.hoursRows, 1, NoHours)
            IN  IF Cardinality(DOMAIN hours) = 0 THEN getDefaultHours ELSE hours
       ELSE getDefaultHours

---------------------------------------------------------------------------
(* extractDentistDetails *)

\* description += text + ' ' over the first n About regions
RECURSIVE JoinRegions(_, _)
JoinRegions(regions, n) ==
  IF n = 0 THEN << >>
  ELSE JoinRegions(regions, n - 1) \o regions[n] \o << " " >>

\* lines 308-331: the About text; a raise while the regions are read keeps
\* what was read before it
ExtractAbout(pane, fault) ==
  IF fault = "aboutClick" \/ ~pane.aboutButton THEN << >>
  ELSE IF fault = "aboutRead"
       THEN JoinRegions(pane.aboutRegions, Max(0, Len(pane.aboutRegions) - 1))
       ELSE JoinRegions(pane.aboutRegions, Len(pane.aboutRegions))

\* lines 385-391: the address-based fallback
FinalDescription(description, address) ==
  IF description # << >> THEN description
  ELSE <<"D","e","n","t","a","l"," ","p","r","a","c","t","i","c","e"," ","l","o","c","a","t","e","d"," ","i","n"," ">> \o address \o << "." >>

\* lines 385-391: the short description
ShortDescription(description, address) ==
  IF description # << >>
  THEN (IF Len(description) > 100
        THEN substring(description, 0, 100) \o <<".",".",".">>
        ELSE description)
  ELSE FinalDescription(description, address)

\* the run the class [\d.]+ or [-\d.]+ takes at 1-based position `from`
\* when `follow` comes right after it: all of the run, or nothing
RunBefore(str, from, class, follow) ==
  LET n == RunLength(str, from, class)
  IN  IF n > 0 /\ OccursAt(str, follow, from + n - 1) THEN n ELSE 0

\* lines 288-297: the displayed rating, in ten-thousandths; 0 when the
\* element is missing, a step raises or the label holds no "<number> stars"
ExtractRating(pane, fault) ==
  LET label  == pane.ratingLabel
      class  == Digits \cup {"."}
      starts == { a \in 1..Len(label) : RunBefore(label, a, class, <<" ","s","t","a","r","s">>) > 0 }
      first  == CHOOSE a \in starts : \A o \in starts : a <= o
  IN  IF fault = "rating" \/ ~pane.hasRating \/ starts = {} THEN 0
      ELSE parseFloat(SubSeq(label, first, first + RunLength(label, first, class) - 1))

\* line 334-335: the coordinates of New York, in ten-thousandths
DefaultCoordinates == [latitude |-> 407128, longitude |-> -740060]

\* lines 333-346: the coordinates after the first "@<run>,<run>" of the
\* page's URL, or the default
ExtractCoordinates(pane, fault) ==
  LET url    == pane.url
      class  == Digits \cup {"-", "."}
      Second(a) == a + 1 + RunBefore(url, a + 1, class, << "," >>) + 1
      starts == { a \in 1..Len(url) :
                    /\ url[a] = "@"
                    /\ RunBefore(url, a + 1, class, << "," >>) > 0
                    /\ RunLength(url, Second(a), class) > 0 }
      first  == CHOOSE a \in starts : \A o \in starts : a <= o
  IN  IF fault = "url" \/ starts = {} THEN DefaultCoordinates
      ELSE [latitude  |-> parseFloat(SubSeq(url, first + 1, Second(first) - 2)),
            longitude |-> parseFloat(SubSeq(url, Second(first),
                             Second(first) + RunLength(url, Second(first), class) - 1))]

\* website: null (line 280), or the href of the link
null == [isNull |-> TRUE]

Href(text) == [isNull |-> FALSE, href |-> text]

\* the steps of extractDentistDetails that may raise
DetailFaults ==
  {"h1", "name", "address", "phone", "website", "rating", "aboutClick",
   "aboutRead", "aboutBack", "url", "hoursClick", "hoursRead", "hoursBack"}

\* the views extractDentistDetails enters and does not leave: a raise
\* between a click of line 315 or 354 and the goBack of line 326 or 375, or
\* of that goBack, is caught by the block's own catch
LeftOpen(pane, fault) ==
  IF ~pane.h1 \/ fault \in {"h1", "name"} THEN 0
  ELSE (IF pane.aboutButton /\ fault \in {"aboutRead", "aboutBack"} THEN 1 ELSE 0)
       + (IF pane.hoursButton /\ fault \in {"hoursRead", "hoursBack"} THEN 1 ELSE 0)

\* line 410
NextIdStuck(id) == id

NextId(id) == id + 1

\* the record of lines 394-408, or null (ok = FALSE) from the catch of 413
extractDentistDetails(pane, fault, nextId) ==
  LET address == IF fault = "address" \/ ~pane.hasAddress THEN << >> ELSE pane.address
      phone   == IF fault = "phone" \/ ~pane.hasPhone THEN << >> ELSE pane.phone
      website == IF fault = "website" \/ ~pane.hasWebsite THEN null ELSE Href(pane.website)
      about   == ExtractAbout(pane, fault)
      coords  == ExtractCoordinates(pane, fault)
      hours   == ExtractHours(pane, fault \in {"hoursClick", "hoursRead", "hoursBack"})
  IN  IF fault \in {"h1", "name"} \/ ~pane.h1
      THEN [ok |-> FALSE]
      ELSE [ok |-> TRUE,
            dentist |-> [id |-> String(nextId),
                         name |-> pane.name,
                         description |-> FinalDescription(about, address),
                         shortDescription |-> ShortDescription(about, address),
                         category |-> <<"D","e","n","t","i","s","t">>,
                         address |-> address,
                         latitude |-> coords.latitude,
                         longitude |-> coords.longitude,
                         phone |-> phone,
                         website |-> website,
                         hours |-> hours,
                         averageRating |-> ExtractRating(pane, fault),
                         reviews |-> << >>,
                         neurodivergent_mentions |-> << >>]]

---------------------------------------------------------------------------
(* extractReviews: the harvested review data *)

\* whether dateStr holds "<digits> <unit> ago", the pattern of lines 587-602
HasCount(dateStr, unitAgo) ==
  \E q \in 1..Len(dateStr) :
     /\ dateStr[q] \in Digits
     /\ OccursAt(dateStr, << " " >> \o unitAgo, q)

\* whether formatDate raises: a branch of lines 586-603 is taken on the
\* plural unit and its pattern with a count does not match (null[1])
formatDateThrows(dateStr) ==
  IF includes(dateStr, <<"a"," ","y","e","a","r"," ","a","g","o">>) THEN FALSE
  ELSE IF includes(dateStr, <<"y","e","a","r","s"," ","a","g","o">>) THEN ~HasCount(dateStr, <<"y","e","a","r","s"," ","a","g","o">>)
  ELSE IF includes(dateStr, <<"a"," ","m","o","n","t","h"," ","a","g","o">>) THEN FALSE
  ELSE IF includes(dateStr, <<"m","o","n","t","h","s"," ","a","g","o">>) THEN ~HasCount(dateStr, <<"m","o","n","t","h","s"," ","a","g","o">>)
  ELSE IF includes(dateStr, <<"a"," ","w","e","e","k"," ","a","g","o">>) THEN FALSE
  ELSE IF includes(dateStr, <<"w","e","e","k","s"," ","a","g","o">>) THEN ~HasCount(dateStr, <<"w","e","e","k","s"," ","a","g","o">>)
  ELSE IF includes(dateStr, <<"a"," ","d","a","y"," ","a","g","o">>) THEN FALSE
  ELSE IF includes(dateStr, <<"d","a","y","s"," ","a","g","o">>) THEN ~HasCount(dateStr, <<"d","a","y","s"," ","a","g","o">>)
  ELSE FALSE

---------------------------------------------------------------------------
(* formatDate: the calendar of Date and the clock of the host *)

IsLeap(y) == (y % 4 = 0 /\ y % 100 # 0) \/ y % 400 = 0

\* month is 0-based, as Date counts it
DaysInMonth(y, month) ==
  IF month = 1 THEN (IF IsLeap(y) THEN 29 ELSE 28)
  ELSE IF month \in {3, 5, 8, 10} THEN 30
  ELSE 31

\* new Date(y, month, d): a day below 1 or above the month's length rolls
\* over into the neighbouring months
RECURSIVE RollDay(_, _, _)
RollDay(y, month, d) ==
  IF d < 1
  THEN LET py == IF month = 0 THEN y - 1 ELSE y
           pm == IF month = 0 THEN 11 ELSE month - 1
       IN  RollDay(py, pm, d + DaysInMonth(py, pm))
  ELSE IF d > DaysInMonth(y, month)
  THEN LET ny == IF month = 11 THEN y + 1 ELSE y
           nm == IF month = 11 THEN 0 ELSE month + 1
       IN  RollDay(ny, nm, d - DaysInMonth(y, month))
  ELSE [year |-> y, month |-> month, day |-> d]

\* new Date(y, month, d): a month outside 0..11 rolls over into the
\* neighbouring years first
NewDate(y, month, d) == RollDay(y + (month \div 12), month % 12, d)

Pad(n, width) ==
  LET digits == String(n)
  IN  [k \in 1..(width - Len(digits)) |-> "0"] \o digits

\* toISOString().split('T')[0] of an instant whose UTC date is `date`
ISODate(date) ==
  Pad(date.year, 4) \o << "-" >> \o Pad(date.month + 1, 2) \o << "-" >> \o Pad(date.day, 2)

\* The host: the local date of `new Date()` (lines 578-581); `east` says
\* that local midnight falls on the previous UTC day (a zone ahead of UTC);
\* `shift` is the UTC date of the present instant minus its local date.
Clocks(locals) ==
  { [year |-> l[1], month |-> l[2], day |-> l[3], east |-> e, shift |-> sh] :
      l \in locals, e \in BOOLEAN, sh \in {-1, 0, 1} } 

\* a zone ahead of UTC is never a day ahead of its local date, one behind
\* never a day behind
ClockPossible(clock) ==
  IF clock.east THEN clock.shift \in {-1, 0} ELSE clock.shift \in {0, 1}

\* new Date(y, month, d).toISOString().split('T')[0]: the UTC date of local
\* midnight of the rolled-over date
LocalMidnightISO(clock, y, month, d) ==
  ISODate(NewDate(y, month, IF clock.east THEN d - 1 ELSE d))

\* now.toISOString().split('T')[0], line 607
NowISO(clock) == ISODate(NewDate(clock.year, clock.month, clock.day + clock.shift))

\* parseInt(dateStr.match(/(\d+) <unit> ago/)[1]): the leftmost run of
\* digits that " <unit> ago" follows, taken as far as it goes
ParseCount(dateStr, unitAgo) ==
  LET Run(a, b) == /\ \A k \in a..b : dateStr[k] \in Digits
                   /\ OccursAt(dateStr, << " " >> \o unitAgo, b)
      starts == { a \in 1..Len(dateStr) : \E b \in a..Len(dateStr) : Run(a, b) }
      first  == CHOOSE a \in starts : \A o \in starts : a <= o
      last   == CHOOSE b \in first..Len(dateStr) : Run(first, b)
  IN  DigitsValue(SubSeq(dateStr, first, last))

\* lines 577-608
formatDate(dateStr, clock) ==
  LET year  == clock.year
      month == clock.month
      day   == clock.day
      Value(str) == [raised |-> FALSE, value |-> str]
  IN  IF formatDateThrows(dateStr) THEN [raised |-> TRUE, value |-> << >>]
      ELSE IF includes(dateStr, <<"a"," ","y","e","a","r"," ","a","g","o">>)
      THEN Value(LocalMidnightISO(clock, year - 1, month, day))
      ELSE IF includes(dateStr, <<"y","e","a","r","s"," ","a","g","o">>)
      THEN Value(LocalMidnightISO(clock, year - ParseCount(dateStr, <<"y","e","a","r","s"," ","a","g","o">>), month, day))
      ELSE IF includes(dateStr, <<"a"," ","m","o","n","t","h"," ","a","g","o">>)
      THEN Value(LocalMidnightISO(clock, year, month - 1, day))
      ELSE IF includes(dateStr, <<"m","o","n","t","h","s"," ","a","g","o">>)
      THEN Value(LocalMidnightISO(clock, year, month - ParseCount(dateStr, <<"m","o","n","t","h","s"," ","a","g","o">>), day))
      ELSE IF includes(dateStr, <<"a"," ","w","e","e","k"," ","a","g","o">>)
      THEN Value(LocalMidnightISO(clock, year, month, day - 7))
      ELSE IF includes(dateStr, <<"w","e","e","k","s"," ","a","g","o">>)
      THEN Value(LocalMidnightISO(clock, year, month, day - ParseCount(dateStr, <<"w","e","e","k","s"," ","a","g","o">>) * 7))
      ELSE IF includes(dateStr, <<"a"," ","d","a","y"," ","a","g","o">>)
      THEN Value(LocalMidnightISO(clock, year, month, day - 1))
      ELSE IF includes(dateStr, <<"d","a","y","s"," ","a","g","o">>)
      THEN Value(LocalMidnightISO(clock, year, month, day - ParseCount(dateStr, <<"d","a","y","s"," ","a","g","o">>)))
      ELSE Value(NowISO(clock))

---------------------------------------------------------------------------
\* lines 489-539: the raw items that look like a review, among the first
\* `loaded` items of the feed
RECURSIVE reviewData(_, _)
reviewData(raw, loaded) ==
  IF loaded = 0 THEN << >>
  ELSE reviewData(raw, loaded - 1)
       \o (IF Len(raw[loaded].reviewText) < 10 THEN << >> ELSE << raw[loaded] >>)

\* the clock of the host during the run: a run lasts minutes, and its
\* reviews are all dated on one day
HostClock == [year |-> 2025, month |-> 5, day |-> 15, east |-> FALSE, shift |-> 0]

\* the loop of lines 545-557 without its bound on i
RECURSIVE FormattedCountUncapped(_, _)
FormattedCountUncapped(data, k) ==
  IF k >= Len(data) THEN k
  ELSE IF formatDateThrows(data[k + 1].date) THEN k
  ELSE FormattedCountUncapped(data, k + 1)

\* the number of reviews the loop of lines 545-557 formats before it ends
\* or formatDate raises, from 0-based index k on
RECURSIVE FormattedCount(_, _)
FormattedCount(data, k) ==
  IF k >= Len(data) \/ k >= MAX_REVIEWS_PER_DENTIST THEN k
  ELSE IF formatDateThrows(data[k + 1].date) THEN k
  ELSE FormattedCount(data, k + 1)

\* whether the loop of lines 545-557 ends by a raise of formatDate
FormatRaises(data) ==
  LET k == FormattedCount(data, 0)
  IN  k < Len(data) /\ k < MAX_REVIEWS_PER_DENTIST

\* lines 546-554 with this.currentId in the place of this.currentId-1
FormatReviewUnderNextId(item, k, nextId) ==
  [id        |-> String(nextId) \o << "-" >> \o String(k),
   serviceId |-> String(nextId),
   rating    |-> item.rating,
   comment   |-> item.reviewText,
   author    |-> IF item.author = << >> THEN <<"A","n","o","n","y","m","o","u","s">> ELSE item.author,
   source    |-> <<"G","o","o","g","l","e"," ","M","a","p","s">>,
   date      |-> formatDate(item.date, HostClock).value]

\* lines 546-554
FormatReview(item, k, nextId) ==
  [id        |-> String(nextId - 1) \o << "-" >> \o String(k),
   serviceId |-> String(nextId - 1),
   rating    |-> item.rating,
   comment   |-> item.reviewText,
   author    |-> IF item.author = << >> THEN <<"A","n","o","n","y","m","o","u","s">> ELSE item.author,
   source    |-> <<"G","o","o","g","l","e"," ","M","a","p","s">>,
   date      |-> formatDate(item.date, HostClock).value]

\* the reviews extractReviews returns for the loaded feed
FormatReviews(data, nextId) ==
  [k \in 1..FormattedCount(data, 0) |-> FormatReview(data[k], k, nextId)]

---------------------------------------------------------------------------
(* The pages the map UI can show for a clicked result *)

\* an item of reviewData (lines 530-535) without a rating element: rating 0
\* (line 502)
RawReview(text, author, date) ==
  [reviewText |-> text, author |-> author, date |-> date, rating |-> 0]

\* the item with the rating its label shows (lines 503-510)
Rated(item, stars) == [item EXCEPT !.rating = stars]

FullTable == << <<"M","o","n","d","a","y",":"," ","9","-","5">>, <<"T","u","e","s","d","a","y",":"," ","9","-","5">>, <<"W","e","d","n","e","s","d","a","y",":"," ","9","-","5">>,
                <<"T","h","u","r","s","d","a","y",":"," ","9","-","5">>, <<"F","r","i","d","a","y",":"," ","9","-","4">>, <<"S","a","t","u","r","d","a","y",":"," ","C","l","o","s","e","d">>,
                <<"S","u","n","d","a","y",":"," ","C","l","o","s","e","d">> >>

\* an About text without keyword, no Hours button, one review without keyword
PagePlain ==
  [h1 |-> TRUE, name |-> <<"S","m","i","l","e"," ","C","o">>, hasAddress |-> TRUE, address |-> <<"1"," ","M","a","i","n"," ","S","t">>,
   aboutButton |-> TRUE, aboutRegions |-> << <<"g","e","n","e","r","a","l"," ","d","e","n","t","i","s","t","r","y">> >>,
   hoursButton |-> FALSE, hoursRows |-> << >>,
   hasPhone |-> TRUE, phone |-> <<"2","1","2","-","5","5","5","-","0","1","0","1">>,
   hasWebsite |-> TRUE, website |-> <<"h","t","t","p","s",":","/","/","s","m","i","l","e",".","e","x","a","m","p","l","e","/">>,
   hasRating |-> TRUE, ratingLabel |-> <<"4",".","5"," ","s","t","a","r","s">>,
   url |-> <<"m","a","p","s","/","p","l","a","c","e","/","S","m","i","l","e","+","C","o","/","@","4","0",".","7","3","0","6",",","-","7","3",".","9","8","6","6",",","1","7","z">>,
   reviewsTab |-> TRUE,
   raw |-> << Rated(RawReview(<<"c","a","t","s"," ","a","n","d"," ","c","a","n","d","y"," ","h","e","r","e">>, <<"A","n","n">>, <<"a"," ","w","e","e","k"," ","a","g","o">>), 4) >>]

\* an About region of more than 100 characters
LongRegion ==
  <<"O","u","r"," ","f","a","m","i","l","y"," ","p","r","a","c","t","i","c","e"," ","h","a","s"," ","c","a","r","e","d"," ","f","o","r"," ","c","h","i","l","d","r","e","n",","," ","t","e","e","n","a","g","e","r","s"," ","a","n","d"," ","a","d","u","l","t","s"," ","o","f"," ","t","h","e"," ","n","e","i","g","h","b","o","u","r","h","o","o","d"," ","f","o","r"," ","o","v","e","r"," ","t","h","i","r","t","y"," ","y","e","a","r","s",".">>

\* a keyword in the second About region, the full hours table, no Reviews tab
PageAbout ==
  [h1 |-> TRUE, name |-> <<"C","a","l","m"," ","K","i","d","s">>, hasAddress |-> TRUE, address |-> <<"3"," ","E","l","m"," ","R","d">>,
   aboutButton |-> TRUE, aboutRegions |-> << <<"f","a","m","i","l","y"," ","c","a","r","e">>, <<"W","e"," ","k","n","o","w"," ","A","u","t","i","s","m">> >>,
   hoursButton |-> TRUE, hoursRows |-> FullTable,
   hasPhone |-> FALSE, phone |-> << >>,
   hasWebsite |-> FALSE, website |-> << >>,
   hasRating |-> TRUE, ratingLabel |-> <<"R","a","t","e","d"," ","5"," ","s","t","a","r","s">>,
   url |-> <<"m","a","p","s","/","p","l","a","c","e","/","C","a","l","m","+","K","i","d","s">>,
   reviewsTab |-> FALSE, raw |-> << >>]

\* no About, a partial hours table, a keyword in one review, a short item
\* that is no review, and a date formatDate cannot parse
PageReviews ==
  [h1 |-> TRUE, name |-> <<"O","a","k"," ","D","e","n","t","a","l">>, hasAddress |-> TRUE, address |-> <<"2"," ","O","a","k"," ","A","v","e">>,
   aboutButton |-> FALSE, aboutRegions |-> << >>,
   hoursButton |-> TRUE,
   hoursRows |-> << <<"M","o","n","d","a","y",":"," ","9","-","5">>, <<"O","p","e","n"," ","n","o","w">>, <<"T","u","e","s","d","a","y",":"," ","9",":","3","0","-","5">> >>,
   hasPhone |-> TRUE, phone |-> <<"(","2","1","2",")"," ","5","5","5","-","0","1","9","9">>,
   hasWebsite |-> FALSE, website |-> << >>,
   hasRating |-> FALSE, ratingLabel |-> << >>,
   url |-> <<"m","a","p","s","/","p","l","a","c","e","/","O","a","k","+","D","e","n","t","a","l","/","@","4","0",".","8",",","-","7","4",",","1","5","z">>,
   reviewsTab |-> TRUE,
   raw |-> << RawReview(<<"5"," ","s","t","a","r","s">>, << >>, <<"a"," ","d","a","y"," ","a","g","o">>),
              Rated(RawReview(<<"g","r","e","a","t"," ","w","i","t","h"," ","A","D","H","D"," ","k","i","d","s">>, <<"B","o","b">>, <<"2"," ","y","e","a","r","s"," ","a","g","o">>), 5),
              Rated(RawReview(<<"h","a","n","d","y"," ","p","a","r","k","i","n","g"," ","l","o","t">>, << >>, <<"s","e","v","e","r","a","l"," ","y","e","a","r","s"," ","a","g","o">>), 3) >>]

\* no address, a table without a parsable row, more reviews than the cap
PageMany ==
  [h1 |-> TRUE, name |-> <<"C","i","t","y"," ","T","e","e","t","h">>, hasAddress |-> FALSE, address |-> << >>,
   aboutButton |-> FALSE, aboutRegions |-> << >>,
   hoursButton |-> TRUE, hoursRows |-> << <<"O","p","e","n"," ","n","o","w">> >>,
   hasPhone |-> FALSE, phone |-> << >>,
   hasWebsite |-> TRUE, website |-> <<"h","t","t","p",":","/","/","c","i","t","y","t","e","e","t","h",".","e","x","a","m","p","l","e">>,
   hasRating |-> TRUE, ratingLabel |-> <<"N","o"," ","s","t","a","r","s"," ","y","e","t">>,
   url |-> <<"m","a","p","s","/","s","e","a","r","c","h","/","d","e","n","t","i","s","t","@","h","o","m","e",",","+","N","Y">>,
   reviewsTab |-> TRUE,
   raw |-> << Rated(RawReview(<<"a"," ","c","a","l","m"," ","d","e","n","t","i","s","t"," ","i","n","d","e","e","d">>, <<"C","y">>, <<"3"," ","m","o","n","t","h","s"," ","a","g","o">>), 5),
              Rated(RawReview(<<"a"," ">> \o << "\"" >> \o <<"v","e","r","y"," ","g","o","o","d">> \o << "\"" >> \o <<" ","v","i","s","i","t"," ">> \o << "\\" >> \o <<"o","/">>, <<"D","i">>, <<"a"," ","m","o","n","t","h"," ","a","g","o">>), 4),
              RawReview(<<"m","y"," ","s","o","n"," ","h","a","s"," ","a","n","x","i","e","t","y">>, <<"E","d">>, <<"y","e","s","t","e","r","d","a","y">>) >>]

\* the details pane never shows its heading
PageBroken ==
  [h1 |-> FALSE, name |-> << >>, hasAddress |-> FALSE, address |-> << >>,
   aboutButton |-> FALSE, aboutRegions |-> << >>,
   hoursButton |-> FALSE, hoursRows |-> << >>,
   hasPhone |-> FALSE, phone |-> << >>,
   hasWebsite |-> FALSE, website |-> << >>,
   hasRating |-> FALSE, ratingLabel |-> << >>,
   url |-> <<"m","a","p","s","/","s","e","a","r","c","h">>,
   reviewsTab |-> FALSE, raw |-> << >>]

Pages == {PagePlain, PageAbout, PageReviews, PageMany, PageBroken}

\* PageAbout with a first About region of more than 100 characters
PageLongAbout ==
  [PageAbout EXCEPT !.aboutRegions = << LongRegion, <<"W","e"," ","k","n","o","w"," ","A","u","t","i","s","m">> >>]

---------------------------------------------------------------------------
(* The annotation of an entity *)

\* the texts the pages can bring to the scan: the descriptions
\* extractDentistDetails can assemble and the review texts
PageTexts ==
  {FinalDescription(ExtractAbout(pg, fault), IF withAddress THEN pg.address ELSE << >>) :
     pg \in Pages, fault \in {"none", "aboutClick", "aboutRead"}, withAddress \in BOOLEAN}
  \cup UNION {{pg.raw[k].reviewText : k \in DOMAIN pg.raw} : pg \in Pages}

\* ScanText on the page texts, computed once
ScanOfPageText == [text \in PageTexts |-> ScanText(text)]

Scan(text) == IF text \in PageTexts THEN ScanOfPageText[text] ELSE ScanText(text)

RECURSIVE SumRatings(_, _)
SumRatings(reviews, n) ==
  IF n = 0 THEN 0 ELSE SumRatings(reviews, n - 1) + reviews[n].rating

\* parseFloat(avgRating.toFixed(1)) for avgRating = sum / count, in
\* ten-thousandths: the nearest tenth.  A mean exactly between two tenths
\* needs a count that 4 divides.
ToFixed1(sum, count) ==
  LET whole == (10 * sum) \div count
      rest  == (10 * sum) % count
  IN  1000 * (IF 2 * rest >= count THEN whole + 1 ELSE whole)

\* lines 207-211 with the displayed rating kept
averageRatingDisplayed(dentist) == dentist

\* lines 207-211
averageRating(dentist) ==
  IF Len(dentist.reviews) > 0
  THEN [dentist EXCEPT !.averageRating =
          ToFixed1(SumRatings(dentist.reviews, Len(dentist.reviews)), Len(dentist.reviews))]
  ELSE dentist

\* review.neurodivergent_mentions as lines 646-687 read it: a review
\* has the property only once line 661-663 has created it
MentionsOf(review) ==
  IF "neurodivergent_mentions" \in DOMAIN review
  THEN review.neurodivergent_mentions ELSE << >>

\* lines 660-669 with the list created ahead of the test of a match
PushMentionsAlways(review, found) ==
  [id |-> review.id, serviceId |-> review.serviceId, rating |-> review.rating,
   comment |-> review.comment, author |-> review.author,
   source |-> review.source, date |-> review.date,
   neurodivergent_mentions |-> MentionsOf(review) \o found]

\* lines 660-669 for every match of one review: the list is created
\* inside the test of a match and each match is pushed
PushMentions(review, found) ==
  IF found = << >> THEN review
  ELSE [id |-> review.id, serviceId |-> review.serviceId, rating |-> review.rating,
        comment |-> review.comment, author |-> review.author,
        source |-> review.source, date |-> review.date,
        neurodivergent_mentions |-> MentionsOf(review) \o found]

\* the result of checkForNeurodivergentMentions and the dentist as it
\* leaves it
\* the mentions found in the comments of the reviews from the r-th on
RECURSIVE ScanReviews(_, _)
ScanReviews(reviews, r) ==
  IF r > Len(reviews) THEN << >>
  ELSE << Scan(reviews[r].comment) >> \o ScanReviews(reviews, r + 1)

checkForNeurodivergentMentions(dentist) ==
  LET Annotation(inDescription, inReviews) ==
        [has |-> hasMentions(inDescription, inReviews),
         dentist |->
           [dentist EXCEPT
              !.reviews = [r \in DOMAIN dentist.reviews |->
                             PushMentions(dentist.reviews[r], inReviews[r])],
              !.neurodivergent_mentions =
                 @ \o WithSource(inDescription, <<"D","e","s","c","r","i","p","t","i","o","n">>)
                   \o ReviewMentions(dentist.reviews, inReviews, 1)]]
      \* each text is scanned once
      scans == { Annotation(inDescription, inReviews) :
                   inDescription \in { Scan(dentist.description) },
                   inReviews \in { ScanReviews(dentist.reviews, 1) } }
  IN  CHOOSE scanned \in scans : TRUE

---------------------------------------------------------------------------
(* createMockDentist *)

MockSentence1 == <<"A"," ","d","e","n","t","a","l"," ","p","r","a","c","t","i","c","e"," ","s","p","e","c","i","a","l","i","z","i","n","g"," ","i","n"," ","c","a","r","e"," ","f","o","r"," ","n","e","u","r","o","d","i","v","e","r","g","e","n","t"," ","p","a","t","i","e","n","t","s",".">>

MockSentence2 == <<"W","e"," ","o","f","f","e","r"," ","s","e","n","s","o","r","y","-","f","r","i","e","n","d","l","y"," ","e","n","v","i","r","o","n","m","e","n","t","s",","," ","v","i","s","u","a","l"," ","s","c","h","e","d","u","l","e","s",","," ","a","n","d"," ","e","x","t","r","a"," ","a","p","p","o","i","n","t","m","e","n","t"," ","t","i","m","e"," ","t","o"," ","e","n","s","u","r","e"," ","c","o","m","f","o","r","t",".">>

MockSentence3 == <<"O","u","r"," ","d","e","n","t","i","s","t","s"," ","a","n","d"," ","h","y","g","i","e","n","i","s","t","s"," ","a","r","e"," ","t","r","a","i","n","e","d"," ","i","n"," ","w","o","r","k","i","n","g"," ","w","i","t","h"," ","p","a","t","i","e","n","t","s"," ","w","h","o"," ","h","a","v","e"," ","a","u","t","i","s","m",","," ","A","D","H","D",","," ","a","n","x","i","e","t","y"," ","d","i","s","o","r","d","e","r","s",","," ","a","n","d"," ","o","t","h","e","r"," ","n","e","u","r","o","d","i","v","e","r","g","e","n","t"," ","c","o","n","d","i","t","i","o","n","s",".">>

MockDescription ==
  MockSentence1 \o << " " >> \o MockSentence2 \o << " " >> \o MockSentence3

MockComment1 == <<"D","r","."," ","J","o","h","n","s","o","n"," ","i","s"," ","a","m","a","z","i","n","g"," ","w","i","t","h"," ","m","y"," ","d","a","u","g","h","t","e","r"," ","w","h","o"," ","h","a","s"," ","a","u","t","i","s","m","."," ","T","h","e","y"," ","t","a","k","e"," ","t","h","e"," ","t","i","m","e"," ","t","o"," ","e","x","p","l","a","i","n"," ","e","v","e","r","y","t","h","i","n","g"," ","a","n","d"," ","l","e","t"," ","h","e","r"," ","g","e","t"," ","c","o","m","f","o","r","t","a","b","l","e"," ","w","i","t","h"," ","t","h","e"," ","t","o","o","l","s"," ","b","e","f","o","r","e"," ","u","s","i","n","g"," ","t","h","e","m",".">>

MockContext2 == <<"A","s"," ","s","o","m","e","o","n","e"," ","w","i","t","h"," ","s","e","v","e","r","e"," ","d","e","n","t","a","l"," ","a","n","x","i","e","t","y"," ","a","n","d"," ","A","D","H","D",","," ","I","'","v","e"," ","a","v","o","i","d","e","d"," ","d","e","n","t","i","s","t","s"," ","f","o","r"," ","y","e","a","r","s","."," ","T","h","i","s"," ","p","r","a","c","t","i","c","e"," ","h","a","s"," ","c","h","a","n","g","e","d"," ","e","v","e","r","y","t","h","i","n","g"," ","f","o","r"," ","m","e",".">>

MockComment2 == MockContext2 \o <<" ","H","i","g","h","l","y"," ","r","e","c","o","m","m","e","n","d","!">>

\* a mention of lines 869-930, its score in hundredths
MockMention(keyword, context, score) ==
  [keyword |-> keyword, context |-> context, sentiment |-> "Positive",
   sentiment_score |-> score]

createMockDentist ==
  [id |-> <<"1">>,
   name |-> <<"S","p","e","c","t","r","u","m"," ","D","e","n","t","a","l"," ","C","a","r","e">>,
   description |-> MockDescription,
   shortDescription |-> <<"D","e","n","t","a","l"," ","p","r","a","c","t","i","c","e"," ","s","p","e","c","i","a","l","i","z","i","n","g"," ","i","n"," ","c","a","r","e"," ","f","o","r"," ","n","e","u","r","o","d","i","v","e","r","g","e","n","t"," ","p","a","t","i","e","n","t","s"," ","w","i","t","h"," ","s","e","n","s","o","r","y"," ","a","c","c","o","m","m","o","d","a","t","i","o","n","s",".">>,
   category |-> <<"D","e","n","t","i","s","t">>,
   address |-> <<"4","5","6"," ","P","a","r","k"," ","A","v","e","n","u","e",","," ","N","e","w"," ","Y","o","r","k",","," ","N","Y"," ","1","0","0","2","2">>,
   latitude |-> 407580,
   longitude |-> -739855,
   phone |-> <<"(","2","1","2",")"," ","5","5","5","-","5","6","7","8">>,
   website |-> Href(<<"h","t","t","p","s",":","/","/","s","p","e","c","t","r","u","m","d","e","n","t","a","l","c","a","r","e",".","c","o","m">>),
   hours |-> [d \in Days |->
                IF d \in { <<"S","a","t","u","r","d","a","y">>, <<"S","u","n","d","a","y">> } THEN <<"C","l","o","s","e","d">>
                ELSE IF d = <<"F","r","i","d","a","y">> THEN <<"8",":","0","0"," ","A","M"," ","-"," ","3",":","0","0"," ","P","M">>
                ELSE <<"8",":","0","0"," ","A","M"," ","-"," ","5",":","0","0"," ","P","M">>],
   averageRating |-> 49000,
   reviews |-> <<
     [id |-> <<"1","-","1">>, serviceId |-> <<"1">>, rating |-> 5, comment |-> MockComment1,
      author |-> <<"R","e","b","e","c","c","a"," ","W",".">>, source |-> <<"G","o","o","g","l","e"," ","M","a","p","s">>, date |-> <<"2","0","2","5","-","0","3","-","2","0">>,
      neurodivergent_mentions |-> << MockMention(<<"a","u","t","i","s","m">>, MockComment1, 80) >>],
     [id |-> <<"1","-","2">>, serviceId |-> <<"1">>, rating |-> 5, comment |-> MockComment2,
      author |-> <<"D","a","v","i","d"," ","K",".">>, source |-> <<"G","o","o","g","l","e"," ","M","a","p","s">>, date |-> <<"2","0","2","5","-","0","2","-","1","0">>,
      neurodivergent_mentions |-> << MockMention(<<"A","D","H","D">>, MockContext2, 60),
                                     MockMention(<<"a","n","x","i","e","t","y">>, MockContext2, 60) >>] >>,
   neurodivergent_mentions |->
     WithSource(<< MockMention(<<"a","u","t","i","s","m">>, MockDescription, 70),
                   MockMention(<<"A","D","H","D">>, MockDescription, 70),
                   MockMention(<<"a","n","x","i","e","t","y">>, MockDescription, 70),
                   MockMention(<<"n","e","u","r","o","d","i","v","e","r","g","e","n","t">>,
                               MockSentence1 \o << " " >> \o MockSentence2, 70) >>,
                <<"D","e","s","c","r","i","p","t","i","o","n">>)]

---------------------------------------------------------------------------
(* JSON.stringify(dentists, null, 2) and the collection read back *)

\* what JSON.stringify writes for one character of a string
EscapeChar(c) == IF c \in {"\"", "\\"} THEN << "\\", c >> ELSE << c >>

\* the mutant of Escape: the characters as they are
EscapeNothing(str) == str

\* the characters JSON.stringify writes between the quotes of a string
RECURSIVE Escape(_)
Escape(str) ==
  IF Len(str) = 0 THEN << >>
  ELSE IF Len(str) = 1 THEN EscapeChar(str[1])
  ELSE LET mid == Len(str) \div 2
       IN  Escape(SubSeq(str, 1, mid)) \o Escape(SubSeq(str, mid + 1, Len(str)))

\* the text of a number held in units of 10^-decimals: no trailing zeros,
\* no point for a whole number
FormatNumber(n, decimals) ==
  LET scale   == Pow10(decimals)
      whole   == Abs(n) \div scale
      frac    == Pad(Abs(n) % scale, decimals)
      nonzero == { k \in 1..decimals : frac[k] # "0" }
      kept    == IF nonzero = {} THEN 0
                 ELSE CHOOSE k \in nonzero : \A o \in nonzero : o <= k
  IN  (IF n < 0 THEN << "-" >> ELSE << >>) \o String(whole)
      \o (IF kept = 0 THEN << >> ELSE << "." >> \o SubSeq(frac, 1, kept))

\* JSON.stringify of a string, of a number (NaN is written as null) and
\* of the website, which is null or a string
stringifyString(str) == << "\"" >> \o Escape(str) \o << "\"" >>

stringifyNumber(n, decimals) ==
  IF n = NaN THEN <<"n","u","l","l">> ELSE FormatNumber(n, decimals)

stringifyWebsite(website) ==
  IF website.isNull THEN <<"n","u","l","l">> ELSE stringifyString(website.href)

SentimentText == [Positive |-> <<"P","o","s","i","t","i","v","e">>, Neutral |-> <<"N","e","u","t","r","a","l">>,
                  Negative |-> <<"N","e","g","a","t","i","v","e">>]

\* a mention of lines 636-642 (with source) or 664-669 (without)
stringifyMention(m) ==
  LET common == [keyword         |-> stringifyString(m.keyword),
                 context         |-> stringifyString(m.context),
                 sentiment       |-> stringifyString(SentimentText[m.sentiment]),
                 sentiment_score |-> stringifyNumber(m.sentiment_score, 2)]
  IN  IF "source" \in DOMAIN m
      THEN [keyword |-> common.keyword, context |-> common.context,
            source |-> stringifyString(m.source), sentiment |-> common.sentiment,
            sentiment_score |-> common.sentiment_score]
      ELSE common

\* a review of lines 546-554; its neurodivergent_mentions exists only
\* after the first push of line 664, and a property that does not exist
\* is not written
stringifyReview(r) ==
  LET common == [id |-> stringifyString(r.id), serviceId |-> stringifyString(r.serviceId),
                 rating |-> stringifyNumber(r.rating, 0),
                 comment |-> stringifyString(r.comment),
                 author |-> stringifyString(r.author),
                 source |-> stringifyString(r.source), date |-> stringifyString(r.date)]
  IN  IF "neurodivergent_mentions" \notin DOMAIN r THEN common
      ELSE [id |-> common.id, serviceId |-> common.serviceId, rating |-> common.rating,
            comment |-> common.comment, author |-> common.author,
            source |-> common.source, date |-> common.date,
            neurodivergent_mentions |->
              [k \in DOMAIN r.neurodivergent_mentions |->
                 stringifyMention(r.neurodivergent_mentions[k])]]

\* an entity of lines 394-408
stringifyDentist(d) ==
  [id               |-> stringifyString(d.id),
   name             |-> stringifyString(d.name),
   description      |-> stringifyString(d.description),
   shortDescription |-> stringifyString(d.shortDescription),
   category         |-> stringifyString(d.category),
   address          |-> stringifyString(d.address),
   latitude         |-> stringifyNumber(d.latitude, 4),
   longitude        |-> stringifyNumber(d.longitude, 4),
   phone            |-> stringifyString(d.phone),
   website          |-> stringifyWebsite(d.website),
   hours            |-> [day \in DOMAIN d.hours |-> stringifyString(d.hours[day])],
   averageRating    |-> stringifyNumber(d.averageRating, 4),
   reviews          |-> [k \in DOMAIN d.reviews |-> stringifyReview(d.reviews[k])],
   neurodivergent_mentions |->
     [k \in DOMAIN d.neurodivergent_mentions |->
        stringifyMention(d.neurodivergent_mentions[k])]]

\* line 797: JSON.stringify(dentists, null, 2), as the tree of the written
\* values with the text of each string, number and null
stringify(ds) == [k \in DOMAIN ds |-> stringifyDentist(ds[k])]

---------------------------------------------------------------------------
(* The state of one run *)

VARIABLES
  pc,             \* the position of run() and of the method it is in
  faults,         \* exceptions the page automation has raised so far
  feedPresent,    \* whether div[role="feed"] appeared after the search
  feedKind,       \* how the feed in view answers a load-more trigger
  ceiling,        \* the count the feed in view cannot exceed
  feedCount,      \* the items the feed in view shows now
  lastCount,      \* lastCount of the scroll loop in progress
  itemCount,      \* itemCount of scrollResults: the last poll
  reviewCount,    \* reviewCount of extractReviews: the last poll
  scrollAttempts, \* scrollAttempts of extractReviews
  ceilRun,        \* consecutive latest polls that observed the ceiling
  page,           \* the page shown for the clicked result
  detail,         \* what extractDentistDetails returned for the item
  dentists,       \* the array extractDentists fills and returns
  currentId,      \* this.currentId
  i,              \* the index of the item in progress
  nItems,         \* limitedItems.length
  log,            \* per attempted item: its index and what became of it
  runDentists,    \* run's dentists, as handed to saveDentistsData
  written,        \* whether saveDentistsData has been called
  artifact,       \* OUTPUT_FILE: whether it was written, and the collection
  writeFailed,    \* whether fs.writeFileSync raised
  outcome,        \* "running", then "completed" (line 826) or "failed" (828)
  views,          \* the views entered by a click and not left by a goBack:
                  \* 0 while the page shows the results list
  call            \* a method of the scraper applied on its own: what it was
                  \* given and what it returned

loopVars == <<feedKind, ceiling, feedCount, lastCount, itemCount, reviewCount,
              scrollAttempts, ceilRun>>

itemVars == <<page, detail, dentists, currentId, i, nItems, log>>

runVars == <<runDentists, written, artifact, writeFailed, outcome>>

vars == <<pc, faults, feedPresent, loopVars, itemVars, runVars, views, call>>

NoDetail == [ok |-> FALSE]

NoArtifact == [exists |-> FALSE, services |-> << >>]

NoCall == [fn |-> "none"]

\* the state the constructor (lines 55-60) and the module leave
Init ==
  /\ views = 0
  /\ pc = "initialize"
  /\ faults = 0
  /\ feedPresent = FALSE
  /\ feedKind = "growing"
  /\ ceiling = 0
  /\ feedCount = 0
  /\ lastCount = 0
  /\ itemCount = 0
  /\ reviewCount = 0
  /\ scrollAttempts = 0
  /\ ceilRun = 0
  /\ page = PageBroken
  /\ detail = NoDetail
  /\ dentists = << >>
  /\ currentId = 1
  /\ i = 0
  /\ nItems = 0
  /\ log = << >>
  /\ runDentists = << >>
  /\ written = FALSE
  /\ artifact = NoArtifact
  /\ writeFailed = FALSE
  /\ outcome = "running"
  /\ call = NoCall

\* reviewsError: whether 'Error extracting reviews:' (line 567) was logged
\* for the item
LogEntry(item, what) ==
  [item |-> item, outcome |-> what, id |-> << >>, reviewsError |-> FALSE]

\* the log with the outcome of the item in progress set
Outcome(what, id) ==
  [log EXCEPT ![Len(log)] = [item |-> @.item, outcome |-> what, id |-> id,
                             reviewsError |-> @.reviewsError]]

\* line 567: the catch of extractReviews has logged the error
ReviewsError == [log EXCEPT ![Len(log)].reviewsError = TRUE]

\* one more exception of the page automation
Raise == faults < MaxFaults /\ faults' = faults + 1

---------------------------------------------------------------------------
(* run: initialize and searchDentists *)

\* lines 65-81
Initialize ==
  /\ pc = "initialize"
  /\ pc' = "search"
  /\ UNCHANGED <<faults, feedPresent, loopVars, itemVars, runVars>>
  /\ UNCHANGED <<views, call>>

\* lines 97-111: goto and the wait for the search box are not guarded, the
\* wait for the feed is (line 108)
searchDentists ==
  /\ pc = "search"
  /\ \/ /\ Raise
        /\ pc' = "catch"
        /\ UNCHANGED <<feedPresent, ceiling, feedCount>>
     \/ /\ UNCHANGED faults
        /\ pc' = "scrollResults"
        /\ \/ /\ feedPresent' = TRUE
              /\ ceiling' = MaxFeed
              /\ feedCount' \in 0..MaxFeed
           \/ /\ feedPresent' = FALSE
              /\ UNCHANGED <<ceiling, feedCount>>
  /\ UNCHANGED <<feedKind, lastCount, itemCount, reviewCount, scrollAttempts,
                 ceilRun, itemVars, runVars>>
  /\ UNCHANGED <<views, call>>

---------------------------------------------------------------------------
(* The feeds and the two scroll loops *)

\* the counts the feed in view may show after a load-more trigger and the
\* pause: any count up to the ceiling (a virtualized list), one more item up
\* to the ceiling, or no fewer items
FeedAfterTrigger(kind, count, ceil) ==
  CASE kind = "arbitrary"   -> 0..ceil
    [] kind = "incremental" -> {IF count < ceil THEN count + 1 ELSE count}
    [] OTHER                -> count..Max(count, ceil)

\* the polls in a row, up to this one, that observed the ceiling of an
\* incremental feed
CeilRunAfter(observed) ==
  IF feedKind = "incremental" /\ observed = ceiling
  THEN Min(ceilRun + 1, maxScrollAttempts + 1)
  ELSE 0

\* scrollResults, lines 117-124: the wait for the feed and lastCount = 0
ScrollStart ==
  /\ pc = "scrollResults"
  /\ \/ /\ feedPresent
        /\ UNCHANGED faults
        /\ lastCount' = 0
        /\ pc' = "listPoll"
     \/ /\ ~feedPresent
        /\ UNCHANGED <<faults, lastCount>>
        /\ pc' = "extractDentists"
     \/ /\ Raise
        /\ UNCHANGED lastCount
        /\ pc' = "extractDentists"
  /\ UNCHANGED <<feedPresent, feedKind, ceiling, feedCount, itemCount, reviewCount,
                 scrollAttempts, ceilRun, itemVars, runVars>>
  /\ UNCHANGED <<views, call>>

\* line 136
ListLoopStops(count, last) == count >= MAX_RESULTS \/ count = last

\* scrollResults, lines 127-138: one poll and the test that ends the loop
ListPoll ==
  /\ pc = "listPoll"
  /\ \/ /\ UNCHANGED faults
        /\ itemCount' = feedCount
        /\ ceilRun' = CeilRunAfter(feedCount)
        /\ pc' = IF ListLoopStops(feedCount, lastCount) THEN "listFinal" ELSE "listScroll"
     \/ /\ Raise
        /\ UNCHANGED <<itemCount, ceilRun>>
        /\ pc' = "extractDentists"
  /\ UNCHANGED <<feedPresent, feedKind, ceiling, feedCount, lastCount, reviewCount,
                 scrollAttempts, itemVars, runVars>>
  /\ UNCHANGED <<views, call>>

\* scrollResults, lines 140-150: the load-more trigger, lastCount and the pause
ListScroll ==
  /\ pc = "listScroll"
  /\ feedCount' \in FeedAfterTrigger(feedKind, feedCount, ceiling)
  /\ lastCount' = itemCount
  /\ pc' = "listPoll"
  /\ UNCHANGED <<faults, feedPresent, feedKind, ceiling, itemCount, reviewCount,
                 scrollAttempts, ceilRun, itemVars, runVars>>
  /\ UNCHANGED <<views, call>>

\* scrollResults, lines 153-159: the final count, after the loop
ListFinal ==
  /\ pc = "listFinal"
  /\ pc' = "extractDentists"
  /\ UNCHANGED <<faults, feedPresent, loopVars, itemVars, runVars>>
  /\ UNCHANGED <<views, call>>

\* line 464
ReviewRoundIdle(count, last) == count >= MAX_REVIEWS_PER_DENTIST \/ count = last

\* extractReviews, lines 455-468: one poll and the idle-round counter
ReviewPoll ==
  /\ pc = "reviewLoop"
  /\ scrollAttempts < maxScrollAttempts
  /\ \/ /\ UNCHANGED <<faults, detail, log>>
        /\ reviewCount' = feedCount
        /\ ceilRun' = CeilRunAfter(feedCount)
        /\ scrollAttempts' = IF ReviewRoundIdle(feedCount, lastCount)
                             THEN scrollAttempts + 1 ELSE 0
        /\ pc' = "reviewScroll"
     \/ /\ Raise
        /\ UNCHANGED <<reviewCount, ceilRun, scrollAttempts, detail>>
        /\ log' = ReviewsError
        /\ pc' = "annotate"
  /\ UNCHANGED <<feedPresent, feedKind, ceiling, feedCount, lastCount, itemCount,
                 page, dentists, currentId, i, nItems, runVars>>
  /\ UNCHANGED <<views, call>>

\* extractReviews, lines 470-478: the load-more trigger, lastCount and the pause
ReviewScroll ==
  /\ pc = "reviewScroll"
  /\ feedCount' \in FeedAfterTrigger(feedKind, feedCount, ceiling)
  /\ lastCount' = reviewCount
  /\ pc' = "reviewLoop"
  /\ UNCHANGED <<faults, feedPresent, feedKind, ceiling, itemCount, reviewCount,
                 scrollAttempts, ceilRun, itemVars, runVars>>
  /\ UNCHANGED <<views, call>>

---------------------------------------------------------------------------
(* extractDentists *)

\* lines 174-183: the items of the feed, limited to maxResults; a raise
\* here is caught at line 245
ExtractStart ==
  /\ pc = "extractDentists"
  /\ \/ /\ UNCHANGED <<faults, runDentists>>
        /\ nItems' = Min(IF feedPresent THEN feedCount ELSE 0, MAX_RESULTS)
        /\ pc' = "item"
     \/ /\ Raise
        /\ UNCHANGED nItems
        /\ runDentists' = dentists
        /\ pc' = "mock"
  /\ i' = 0
  /\ itemCount' = 0
  /\ lastCount' = 0
  /\ ceilRun' = 0
  /\ UNCHANGED <<feedPresent, feedKind, ceiling, feedCount, reviewCount,
                 scrollAttempts, page, detail, dentists, currentId, log,
                 written, artifact, writeFailed, outcome>>
  /\ UNCHANGED <<views, call>>

\* lines 185-197: the click on item i, which brings up some page
ClickItem ==
  /\ pc = "item"
  /\ i < nItems
  /\ detail' = NoDetail
  /\ \/ /\ UNCHANGED faults
        /\ page' \in Pages
        /\ views' = views + 1
        /\ log' = Append(log, LogEntry(i, "clicked"))
        /\ pc' = "details"
     \/ /\ Raise
        /\ UNCHANGED views
        /\ page' = PageBroken
        /\ log' = Append(log, LogEntry(i, "exception"))
        /\ pc' = "catchBack"
  /\ UNCHANGED <<feedPresent, loopVars, dentists, currentId, i, nItems, runVars>>
  /\ UNCHANGED call

\* line 200: extractDentistDetails on the page in view; a step of it may raise
ExtractDetails ==
  /\ pc = "details"
  /\ \E fault \in {"none"} \cup DetailFaults :
       /\ IF fault = "none" THEN UNCHANGED faults ELSE Raise
       /\ detail' = extractDentistDetails(page, fault, currentId)
       /\ views' = views + LeftOpen(page, fault)
  /\ currentId' = IF detail'.ok THEN NextId(currentId) ELSE currentId
  /\ log' = IF detail'.ok THEN log ELSE Outcome("null", << >>)
  /\ pc' = IF detail'.ok THEN "extractReviews" ELSE "goBack"
  /\ UNCHANGED <<feedPresent, loopVars, page, dentists, i, nItems, runVars>>
  /\ UNCHANGED call

\* extractReviews, lines 442-452: the Reviews tab and the loop's counters;
\* without the tab, or on a raise, extractReviews returns no review
ReviewsOpen ==
  /\ pc = "extractReviews"
  /\ \/ /\ page.reviewsTab
        /\ UNCHANGED <<faults, log>>
        /\ views' = views + 1
        /\ ceiling' = Min(Len(page.raw), MaxFeed)
        /\ feedCount' \in 0..ceiling'
        /\ pc' = "reviewLoop"
     \/ /\ ~page.reviewsTab
        /\ UNCHANGED <<faults, ceiling, feedCount, log, views>>
        /\ pc' = "annotate"
     \/ /\ Raise
        /\ UNCHANGED <<ceiling, feedCount, views>>
        /\ log' = ReviewsError
        /\ pc' = "annotate"
  /\ lastCount' = 0
  /\ scrollAttempts' = 0
  /\ reviewCount' = 0
  /\ UNCHANGED <<feedPresent, feedKind, itemCount, ceilRun, page, detail, dentists,
                 currentId, i, nItems, runVars>>
  /\ UNCHANGED call

\* extractReviews, lines 481-564: the review data of the loaded feed,
\* formatted until the cap, the end, or a raise of formatDate
ReviewData ==
  /\ pc = "reviewLoop"
  /\ scrollAttempts >= maxScrollAttempts
  /\ \/ /\ UNCHANGED faults
        /\ detail' = [detail EXCEPT !.dentist.reviews =
                        FormatReviews(reviewData(page.raw, feedCount), currentId)]
        /\ log' = IF FormatRaises(reviewData(page.raw, feedCount))
                  THEN ReviewsError ELSE log
        /\ views' = IF FormatRaises(reviewData(page.raw, feedCount))
                    THEN views ELSE views - 1
     \/ /\ Raise
        /\ UNCHANGED <<detail, views>>
        /\ log' = ReviewsError
  /\ pc' = "annotate"
  /\ lastCount' = 0
  /\ scrollAttempts' = 0
  /\ reviewCount' = 0
  /\ UNCHANGED <<feedPresent, feedKind, ceiling, feedCount, itemCount, ceilRun,
                 page, dentists, currentId, i, nItems, runVars>>
  /\ UNCHANGED call

\* lines 205-223: the annotation and the decision to keep the entity
Annotate ==
  /\ pc = "annotate"
  /\ \E r \in { checkForNeurodivergentMentions(averageRating(detail.dentist)) } :
         /\ detail' = [detail EXCEPT !.dentist = r.dentist]
         /\ dentists' = IF r.has THEN Append(dentists, r.dentist) ELSE dentists
         /\ log' = Outcome(IF r.has THEN "accepted" ELSE "rejected", r.dentist.id)
  \* the reviews feed is left behind: its counters are read no more
  /\ ceiling' = 0
  /\ feedCount' = 0
  /\ ceilRun' = 0
  /\ pc' = "goBack"
  /\ UNCHANGED <<faults, feedPresent, feedKind, lastCount, itemCount, reviewCount,
                 scrollAttempts, page, currentId, i, nItems, runVars>>
  /\ UNCHANGED <<views, call>>

\* lines 225-227: back to the results, and on to the next item
GoBack ==
  /\ pc = "goBack"
  /\ \/ /\ UNCHANGED faults
        /\ views' = views - 1
        /\ i' = i + 1
        /\ pc' = "item"
     \/ /\ Raise
        /\ UNCHANGED <<i, views>>
        /\ pc' = "catchBack"
  /\ UNCHANGED <<feedPresent, loopVars, page, detail, dentists, currentId, nItems,
                 log, runVars>>
  /\ UNCHANGED call

\* line 238: continue
ContinueIndexAbort(index, n) == n

ContinueIndex(index, n) == index + 1

\* lines 229-239: the catch of one item
CatchItem ==
  /\ pc = "catchBack"
  /\ i' = ContinueIndex(i, nItems)
  /\ views' = views - 1
  /\ pc' = "item"
  /\ UNCHANGED <<faults, feedPresent, loopVars, page, detail, dentists, currentId,
                 nItems, log, runVars>>
  /\ UNCHANGED call

\* lines 242-243: the return of extractDentists into run (line 815)
ExtractReturn ==
  /\ pc = "item"
  /\ i >= nItems
  /\ runDentists' = dentists
  /\ page' = PageBroken
  /\ detail' = NoDetail
  /\ pc' = "mock"
  /\ UNCHANGED <<faults, feedPresent, loopVars, dentists, currentId, i, nItems, log,
                 written, artifact, writeFailed, outcome>>
  /\ UNCHANGED <<views, call>>

---------------------------------------------------------------------------
(* run: the placeholder, the writer and the end *)

\* line 818
NeedsMockNever(ds) == FALSE

NeedsMock(ds) == Len(ds) = 0

\* lines 817-821
SubstituteMock ==
  /\ pc = "mock"
  /\ runDentists' = IF NeedsMock(runDentists)
                    THEN Append(runDentists, createMockDentist)
                    ELSE runDentists
  /\ pc' = "save"
  /\ UNCHANGED <<faults, feedPresent, loopVars, itemVars, written, artifact,
                 writeFailed, outcome>>
  /\ UNCHANGED <<views, call>>

\* lines 753-805: the write succeeds, or raises into the catch of line 802
saveDentistsData ==
  /\ pc = "save"
  /\ written' = TRUE
  /\ \/ /\ artifact' = [exists |-> TRUE, services |-> runDentists]
        /\ UNCHANGED writeFailed
     \/ /\ writeFailed' = TRUE
        /\ UNCHANGED artifact
  /\ pc' = "close"
  /\ UNCHANGED <<faults, feedPresent, loopVars, itemVars, runDentists, outcome>>
  /\ UNCHANGED <<views, call>>

\* lines 824-826: close and 'Scraping completed successfully'
Close ==
  /\ pc = "close"
  /\ outcome' = "completed"
  /\ pc' = "done"
  /\ UNCHANGED <<faults, feedPresent, loopVars, itemVars, runDentists, written,
                 artifact, writeFailed>>
  /\ UNCHANGED <<views, call>>

\* lines 827-830: the catch of run
RunCatch ==
  /\ pc = "catch"
  /\ outcome' = "failed"
  /\ pc' = "done"
  /\ UNCHANGED <<faults, feedPresent, loopVars, itemVars, runDentists, written,
                 artifact, writeFailed>>
  /\ UNCHANGED <<views, call>>

Next ==
  \/ Initialize
  \/ searchDentists
  \/ ScrollStart
  \/ ListPoll
  \/ ListScroll
  \/ ListFinal
  \/ ExtractStart
  \/ ClickItem
  \/ ExtractDetails
  \/ ReviewsOpen
  \/ ReviewPoll
  \/ ReviewScroll
  \/ ReviewData
  \/ Annotate
  \/ GoBack
  \/ CatchItem
  \/ ExtractReturn
  \/ SubstituteMock
  \/ saveDentistsData
  \/ Close
  \/ RunCatch

Spec == Init /\ [][Next]_vars

---------------------------------------------------------------------------
(* The methods of the scraper applied on their own, over bounded inputs *)

\* the state of Init but for the method applied
CallInit ==
  /\ views = 0
  /\ pc = "initialize"
  /\ faults = 0
  /\ feedPresent = FALSE
  /\ feedKind = "growing"
  /\ ceiling = 0
  /\ feedCount = 0
  /\ lastCount = 0
  /\ itemCount = 0
  /\ reviewCount = 0
  /\ scrollAttempts = 0
  /\ ceilRun = 0
  /\ page = PageBroken
  /\ detail = NoDetail
  /\ dentists = << >>
  /\ currentId = 1
  /\ i = 0
  /\ nItems = 0
  /\ log = << >>
  /\ runDentists = << >>
  /\ written = FALSE
  /\ artifact = NoArtifact
  /\ writeFailed = FALSE
  /\ outcome = "running"
  /\ call = NoCall

pipelineVars == <<pc, faults, feedPresent, loopVars, itemVars, runVars, views>>

\* the review dates the map UI shows, and other texts in their place
DatePhrases ==
  { <<"a"," ","y","e","a","r"," ","a","g","o">>, <<"2"," ","y","e","a","r","s"," ","a","g","o">>, <<"1","0"," ","y","e","a","r","s"," ","a","g","o">>, <<"a"," ","m","o","n","t","h"," ","a","g","o">>,
    <<"3"," ","m","o","n","t","h","s"," ","a","g","o">>, <<"1","4"," ","m","o","n","t","h","s"," ","a","g","o">>, <<"a"," ","w","e","e","k"," ","a","g","o">>, <<"2"," ","w","e","e","k","s"," ","a","g","o">>,
    <<"5"," ","w","e","e","k","s"," ","a","g","o">>, <<"a"," ","d","a","y"," ","a","g","o">>, <<"5"," ","d","a","y","s"," ","a","g","o">>, <<"4","0"," ","d","a","y","s"," ","a","g","o">>,
    <<"E","d","i","t","e","d"," ","2"," ","w","e","e","k","s"," ","a","g","o">>, <<"s","e","v","e","r","a","l"," ","y","e","a","r","s"," ","a","g","o">>, <<"a"," ","f","e","w"," ","m","o","n","t","h","s"," ","a","g","o">>,
    <<"w","e","e","k","s"," ","a","g","o">>, <<"m","a","n","y"," ","d","a","y","s"," ","a","g","o">>, <<"3"," ","h","o","u","r","s"," ","a","g","o">>, <<"j","u","s","t"," ","n","o","w">>,
    <<"y","e","s","t","e","r","d","a","y">>, <<"N","e","w">>, << >> }

\* local dates of the host: mid-month, a leap day, ends of months, the
\* first and last day of a year (month 0-based)
LocalDates ==
  { <<2025, 5, 15>>, <<2024, 1, 29>>, <<2025, 2, 31>>, <<2025, 0, 1>>,
    <<2025, 11, 31>>, <<2025, 2, 1>> }

\* formatDate(dateStr) on a host whose clock is `clock`
CallFormatDate ==
  /\ call = NoCall
  /\ \E dateStr \in DatePhrases, clock \in Clocks(LocalDates) :
       /\ ClockPossible(clock)
       /\ call' = [fn |-> "formatDate", dateStr |-> dateStr, clock |-> clock,
                   result |-> formatDate(dateStr, clock)]
  /\ UNCHANGED pipelineVars

\* the longest text of ShortTexts
MaxTextLen == 3

RECURSIVE TextsUpTo(_, _)
TextsUpTo(alphabet, n) ==
  IF n = 0 THEN { << >> }
  ELSE LET shorter == TextsUpTo(alphabet, n - 1)
       IN  shorter \cup { Append(t, c) : t \in { u \in shorter : Len(u) = n - 1 },
                                         c \in alphabet }

\* every text up to MaxTextLen over letters of "ND" in both cases, another
\* word character, a space and an apostrophe
ShortTexts == TextsUpTo({"N", "n", "D", "d", "_", " ", "'"}, MaxTextLen)

\* descriptions and comments with taxonomy phrases in other casings, inside
\* longer words, next to punctuation, and more than once
PhraseTexts ==
  { <<"S","P","D","s"," ","a","n","d"," ","s","p","d">>, <<"m","y"," ","a","d","h","d"," ","s","o","n">>, <<"x","A","D","H","D">>, <<"A","D","H","D",".">>, <<"(","A","u","t","i","s","m",")">>,
    <<"a","u","t","i","s","t","i","c","s">>, <<"a","n","x","i","e","t","y","-","f","r","e","e">>, <<"A","n","x","i","e","t","y","_","f","r","e","e">>, <<"a","s","p","e","r","g","e","r","s">>,
    <<"A","S","P","E","R","G","E","R","'","S"," ","k","i","d","s">>, <<"T","o","u","r","e","t","t","e","'","s","!">>, <<"s","p","e","c","i","a","l"," "," ","n","e","e","d","s">>,
    <<"S","p","e","c","i","a","l"," ","N","e","e","d","s">>, <<"c","h","i","l","d","r","e","n"," ","w","i","t","h"," ","s","p","e","c","i","a","l"," ","n","e","e","d","s">>,
    <<"p","e","d","i","a","t","r","i","c"," ","a","u","t","i","s","m"," ","a","n","d"," ","A","N","X","I","E","T","Y",","," ","a","n","x","i","e","t","y">>, <<"a"," ","c","a","l","m"," ","d","e","n","t","i","s","t","9">>,
    <<"g","e","n","t","l","e"," ","d","e","n","t","i","s","t",","," ","c","a","l","m"," ","d","e","n","t","i","s","t">>, <<"n","d">>, <<"2","n","d">>, <<"s","e","n","s","o","r","y"," ","p","r","o","c","e","s","s","i","n","g"," ","d","i","s","o","r","d","e","r","s">>,
    <<"n","e","u","r","o","d","i","v","e","r","s","i","t","y"," ","n","e","u","r","o","d","i","v","e","r","g","e","n","t">> }

\* description.match(pattern), lines 623-624, for pattern n
CallMatch ==
  /\ call = NoCall
  /\ \E text \in ShortTexts \cup PhraseTexts, n \in DOMAIN KEYWORD_PATTERNS :
       call' = [fn |-> "match", text |-> text, n |-> n,
                result |-> PatternMatch(text, KEYWORD_PATTERNS[n])]
  /\ UNCHANGED pipelineVars

\* the most tokens of a text handed to analyzeSentiment
MaxTokens == 20

\* the largest magnitude of the sum of valences
MaxScore == 3

\* what sentiment.analyze can return for a text: for a text without a
\* word the one token "" and the sum 0
Analyses(text) ==
  IF \A k \in DOMAIN text : text[k] \notin UpperSet \cup LowerSet \cup Digits
  THEN { [score |-> 0, tokens |-> 1] }
  ELSE { [score |-> sc, tokens |-> tk] : sc \in (-MaxScore)..MaxScore, tk \in 1..MaxTokens }

\* analyzeSentiment(text), lines 730-747
CallAnalyzeSentiment ==
  /\ call = NoCall
  /\ \E text \in { << >>, <<"?","!">>, <<"a"," ","c","a","l","m"," ","d","e","n","t","i","s","t">> } :
       \E result \in Analyses(text) :
          call' = [fn |-> "analyzeSentiment", text |-> text, analysis |-> result,
                   result |-> analyzeSentiment(result)]
  /\ UNCHANGED pipelineVars

\* the scan of one description or comment, lines 621-645 and 649-686
CallScan ==
  /\ call = NoCall
  /\ \E text \in ShortTexts \cup PhraseTexts :
       call' = [fn |-> "scan", text |-> text, result |-> ScanText(text)]
  /\ UNCHANGED pipelineVars

\* a comment longer than two windows, its keyword more than contextSize
\* characters from its start
LongComment ==
  <<"W","o","n","d","e","r","f","u","l"," ","s","t","a","f","f"," ","a","n","d"," ","a"," ","v","e","r","y"," ","p","a","t","i","e","n","t"," ","h","y","g","i","e","n","i","s","t"," ","w","h","o"," ","e","x","p","l","a","i","n","e","d"," ","e","v","e","r","y"," ","s","i","n","g","l","e"," ","s","t","e","p"," ","b","e","f","o","r","e"," ","w","e"," ","b","e","g","a","n",","," ","a","n","d"," ","s","o"," ","a","u","t","i","s","m"," ","i","s"," ","n","o"," ","o","b","s","t","a","c","l","e"," ","h","e","r","e",";"," ","m","y"," ","s","o","n"," ","f","e","l","t"," ","s","a","f","e"," ","a","n","d"," ","c","a","l","m",","," ","a","n","d"," ","w","e"," ","w","i","l","l"," ","c","e","r","t","a","i","n","l","y"," ","c","o","m","e"," ","b","a","c","k"," ","n","e","x","t"," ","s","p","r","i","n","g"," ","f","o","r"," ","t","h","e"," ","r","e","g","u","l","a","r"," ","c","l","e","a","n","i","n","g"," ","w","i","t","h"," ","t","h","i","s"," ","t","e","a","m",".">>

\* a comment whose keyword ND stands as a word near the end, the letters
\* "nd" inside a word near the start
EarlierInWord ==
  <<"A"," ","f","r","i","e","n","d","l","y"," ","o","f","f","i","c","e"," ","w","i","t","h"," ","k","i","n","d"," ","p","e","o","p","l","e"," ","a","t"," ","t","h","e"," ","d","e","s","k",";"," ","t","h","e","y"," ","b","o","o","k","e","d"," ","u","s"," ","q","u","i","c","k","l","y",","," ","e","x","p","l","a","i","n","e","d"," ","t","h","e"," ","c","o","s","t","s",","," ","t","o","o","k"," ","t","h","e","i","r"," ","t","i","m","e"," ","d","u","r","i","n","g"," ","t","h","e"," ","e","x","a","m",","," ","a","n","d"," ","w","e","r","e"," ","g","r","e","a","t"," ","w","i","t","h"," ","m","y"," ","N","D"," ","s","o","n",".">>

\* the comment as it is and after other openings, and texts shorter than a
\* window
ContextTexts ==
  { opening \o LongComment : opening \in { << >>, <<"S","o"," ">>, <<"T","r","u","l","y"," ">>, <<" ">> } }
  \cup { EarlierInWord }
  \cup PhraseTexts

\* the keywords checkForNeurodivergentMentions hands to getContext for a
\* text: match[0] of every pattern that matches, lines 624-628
MatchedKeywords(text) ==
  { substring(text, PatternMatch(text, KEYWORD_PATTERNS[n]),
              PatternMatch(text, KEYWORD_PATTERNS[n]) + Len(KEYWORD_PATTERNS[n])) :
      n \in { m \in DOMAIN KEYWORD_PATTERNS : PatternMatch(text, KEYWORD_PATTERNS[m]) # -1 } }

\* getContext(text, keyword), lines 699-723
CallGetContext ==
  /\ call = NoCall
  /\ \E text \in ContextTexts :
       \E keyword \in MatchedKeywords(text) :
          call' = [fn |-> "getContext", text |-> text, keyword |-> keyword,
                   result |-> getContext(text, keyword, contextSize)]
  /\ UNCHANGED pipelineVars

\* the most reviews of an entity handed to checkForNeurodivergentMentions
MaxCallReviews == 2

\* descriptions: none, one with a phrase, one with three mentions
CallDescriptions ==
  { << >>, <<"g","e","n","e","r","a","l"," ","d","e","n","t","i","s","t","r","y">>, <<"W","e"," ","k","n","o","w"," ","A","u","t","i","s","m">>,
    <<"p","e","d","i","a","t","r","i","c"," ","a","u","t","i","s","m"," ","a","n","d"," ","A","N","X","I","E","T","Y",","," ","a","n","x","i","e","t","y">> }

\* harvested items: without a phrase, with one, with two, without an author
CallRawReviews ==
  { RawReview(<<"c","a","t","s"," ","a","n","d"," ","c","a","n","d","y"," ","h","e","r","e">>, <<"A","n","n">>, <<"a"," ","w","e","e","k"," ","a","g","o">>),
    RawReview(<<"g","r","e","a","t"," ","w","i","t","h"," ","A","D","H","D"," ","k","i","d","s">>, <<"B","o","b">>, <<"2"," ","y","e","a","r","s"," ","a","g","o">>),
    RawReview(<<"m","y"," ","s","o","n"," ","h","a","s"," ","a","n","x","i","e","t","y"," ","a","n","d"," ","A","D","H","D">>, << >>, <<"a"," ","d","a","y"," ","a","g","o">>) }

RECURSIVE SeqsUpTo(_, _)
SeqsUpTo(items, n) ==
  IF n = 0 THEN { << >> }
  ELSE LET shorter == SeqsUpTo(items, n - 1)
       IN  shorter \cup { Append(sq, it) : sq \in { u \in shorter : Len(u) = n - 1 },
                                           it \in items }

\* checkForNeurodivergentMentions(dentist), lines 616-690, for a dentist as
\* extractDentistDetails and extractReviews leave it
CallAnnotate ==
  /\ call = NoCall
  /\ \E description \in CallDescriptions, data \in SeqsUpTo(CallRawReviews, MaxCallReviews) :
       LET dentist == [id |-> <<"1">>, description |-> description,
                       reviews |-> FormatReviews(data, 2),
                       neurodivergent_mentions |-> << >>]
       IN  call' = [fn |-> "checkForNeurodivergentMentions", dentist |-> dentist,
                    result |-> checkForNeurodivergentMentions(dentist)]
  /\ UNCHANGED pipelineVars

\* the longest collection handed to saveDentistsData on its own
MaxSaved == 2

\* what extractDentists makes of a page whose reviews are all loaded: the
\* record of lines 200-211 and its annotation of line 214
ScrapedEntity(pane, fault, nextId) ==
  LET d == extractDentistDetails(pane, fault, nextId).dentist
      harvested == [d EXCEPT !.reviews =
                      FormatReviews(reviewData(pane.raw, Len(pane.raw)), nextId + 1)]
  IN  checkForNeurodivergentMentions(averageRating(harvested))

\* the entities extractDentists can accept from the pages, and the
\* placeholder of createMockDentist
CallEntities ==
  { r.dentist : r \in { e \in { ScrapedEntity(pg, fault, 1) :
                                  pg \in { pn \in Pages : pn.h1 },
                                  fault \in {"none", "url"} } : e.has } }
  \cup { createMockDentist }

\* saveDentistsData(dentists), lines 753-805: the collection as line 797
\* writes it
CallSave ==
  /\ call = NoCall
  /\ \E ds \in SeqsUpTo(CallEntities, MaxSaved) :
       call' = [fn |-> "saveDentistsData", ds |-> ds, result |-> stringify(ds)]
  /\ UNCHANGED pipelineVars

\* extractDentistDetails(), lines 255-417, on a page in view, with at most
\* one of its steps raising
CallExtractDetails ==
  /\ call = NoCall
  /\ \E pg \in Pages \cup {PageLongAbout}, fault \in {"none"} \cup DetailFaults :
       call' = [fn |-> "extractDentistDetails", pane |-> pg, fault |-> fault,
                result |-> extractDentistDetails(pg, fault, 1)]
  /\ UNCHANGED pipelineVars

---------------------------------------------------------------------------
(* The data files: dentistServices.ts and mockServices.ts *)

\* the items with sep between them
RECURSIVE Join(_, _)
Join(items, sep) ==
  IF Len(items) = 0 THEN << >>
  ELSE IF Len(items) = 1 THEN items[1]
  ELSE items[1] \o sep \o Join(Tail(items), sep)

\* the declarations of lines 756-795, which are those mockServices.ts of
\* the repository starts with
Interfaces == Join(<<
  <<"e","x","p","o","r","t"," ","i","n","t","e","r","f","a","c","e"," ","R","e","v","i","e","w"," ","{">>,
  <<" "," ","i","d",":"," ","s","t","r","i","n","g",";">>,
  <<" "," ","s","e","r","v","i","c","e","I","d",":"," ","s","t","r","i","n","g",";">>,
  <<" "," ","r","a","t","i","n","g",":"," ","n","u","m","b","e","r",";">>,
  <<" "," ","c","o","m","m","e","n","t",":"," ","s","t","r","i","n","g",";">>,
  <<" "," ","a","u","t","h","o","r",":"," ","s","t","r","i","n","g",";">>,
  <<" "," ","s","o","u","r","c","e",":"," ","s","t","r","i","n","g",";">>,
  <<" "," ","d","a","t","e",":"," ","s","t","r","i","n","g",";">>,
  <<" "," ","n","e","u","r","o","d","i","v","e","r","g","e","n","t","_","m","e","n","t","i","o","n","s","?",":"," ","{">>,
  <<" "," "," "," ","k","e","y","w","o","r","d",":"," ","s","t","r","i","n","g",";">>,
  <<" "," "," "," ","c","o","n","t","e","x","t",":"," ","s","t","r","i","n","g",";">>,
  <<" "," "," "," ","s","e","n","t","i","m","e","n","t",":"," ","s","t","r","i","n","g",";">>,
  <<" "," "," "," ","s","e","n","t","i","m","e","n","t","_","s","c","o","r","e",":"," ","n","u","m","b","e","r",";">>,
  <<" "," ","}","[","]",";">>,
  <<"}">>,
  << >>,
  <<"e","x","p","o","r","t"," ","i","n","t","e","r","f","a","c","e"," ","S","e","r","v","i","c","e"," ","{">>,
  <<" "," ","i","d",":"," ","s","t","r","i","n","g",";">>,
  <<" "," ","n","a","m","e",":"," ","s","t","r","i","n","g",";">>,
  <<" "," ","d","e","s","c","r","i","p","t","i","o","n",":"," ","s","t","r","i","n","g",";">>,
  <<" "," ","s","h","o","r","t","D","e","s","c","r","i","p","t","i","o","n",":"," ","s","t","r","i","n","g",";">>,
  <<" "," ","c","a","t","e","g","o","r","y",":"," ","s","t","r","i","n","g",";">>,
  <<" "," ","a","d","d","r","e","s","s",":"," ","s","t","r","i","n","g",";">>,
  <<" "," ","l","a","t","i","t","u","d","e",":"," ","n","u","m","b","e","r",";">>,
  <<" "," ","l","o","n","g","i","t","u","d","e",":"," ","n","u","m","b","e","r",";">>,
  <<" "," ","p","h","o","n","e",":"," ","s","t","r","i","n","g",";">>,
  <<" "," ","w","e","b","s","i","t","e","?",":"," ","s","t","r","i","n","g",";">>,
  <<" "," ","h","o","u","r","s",":"," ","{">>,
  <<" "," "," "," ","[","k","e","y",":"," ","s","t","r","i","n","g","]",":"," ","s","t","r","i","n","g",";">>,
  <<" "," ","}",";">>,
  <<" "," ","a","v","e","r","a","g","e","R","a","t","i","n","g","?",":"," ","n","u","m","b","e","r",";">>,
  <<" "," ","r","e","v","i","e","w","s","?",":"," ","R","e","v","i","e","w","[","]",";">>,
  <<" "," ","n","e","u","r","o","d","i","v","e","r","g","e","n","t","_","m","e","n","t","i","o","n","s","?",":"," ","{">>,
  <<" "," "," "," ","k","e","y","w","o","r","d",":"," ","s","t","r","i","n","g",";">>,
  <<" "," "," "," ","c","o","n","t","e","x","t",":"," ","s","t","r","i","n","g",";">>,
  <<" "," "," "," ","s","o","u","r","c","e",":"," ","s","t","r","i","n","g",";">>,
  <<" "," "," "," ","s","e","n","t","i","m","e","n","t",":"," ","s","t","r","i","n","g",";">>,
  <<" "," "," "," ","s","e","n","t","i","m","e","n","t","_","s","c","o","r","e",":"," ","n","u","m","b","e","r",";">>,
  <<" "," ","}","[","]",";">>,
  <<"}">> >>, << "\n" >>)

\* JSON.stringify(value, null, 2) of an array or an object whose members
\* are written already; depth is the indentation of its own line
Block(open, items, close, depth) ==
  LET Spaces(n) == [k \in 1..n |-> " "]
  IN  IF Len(items) = 0 THEN open \o close
      ELSE open \o << "\n" >>
           \o Join([k \in DOMAIN items |-> Spaces(depth + 2) \o items[k]], << ",", "\n" >>)
           \o << "\n" >> \o Spaces(depth) \o close

\* a property of an object
Member(key, value) == << "\"" >> \o key \o << "\"", ":", " " >> \o value

\* the days in the order getDefaultHours (lines 423-433) and the tables
\* name them
WeekOrder == << <<"M","o","n","d","a","y">>, <<"T","u","e","s","d","a","y">>, <<"W","e","d","n","e","s","d","a","y">>, <<"T","h","u","r","s","d","a","y">>,
               <<"F","r","i","d","a","y">>, <<"S","a","t","u","r","d","a","y">>, <<"S","u","n","d","a","y">> >>

RenderMention(m, depth) ==
  Block(<<"{">>,
        << Member(<<"k","e","y","w","o","r","d">>, m.keyword), Member(<<"c","o","n","t","e","x","t">>, m.context) >>
        \o (IF "source" \in DOMAIN m THEN << Member(<<"s","o","u","r","c","e">>, m.source) >> ELSE << >>)
        \o << Member(<<"s","e","n","t","i","m","e","n","t">>, m.sentiment),
              Member(<<"s","e","n","t","i","m","e","n","t","_","s","c","o","r","e">>, m.sentiment_score) >>,
        <<"}">>, depth)

RenderMentions(ms, depth) ==
  Block(<<"[">>, [k \in DOMAIN ms |-> RenderMention(ms[k], depth + 2)], <<"]">>, depth)

RenderReview(r, depth) ==
  Block(<<"{">>,
        << Member(<<"i","d">>, r.id), Member(<<"s","e","r","v","i","c","e","I","d">>, r.serviceId),
           Member(<<"r","a","t","i","n","g">>, r.rating), Member(<<"c","o","m","m","e","n","t">>, r.comment),
           Member(<<"a","u","t","h","o","r">>, r.author), Member(<<"s","o","u","r","c","e">>, r.source),
           Member(<<"d","a","t","e">>, r.date) >>
        \o (IF "neurodivergent_mentions" \in DOMAIN r
            THEN << Member(<<"n","e","u","r","o","d","i","v","e","r","g","e","n","t","_","m","e","n","t","i","o","n","s">>,
                           RenderMentions(r.neurodivergent_mentions, depth + 2)) >>
            ELSE << >>),
        <<"}">>, depth)

RenderHours(hours, depth) ==
  Block(<<"{">>,
        SelectSeq([k \in DOMAIN WeekOrder |->
                     IF WeekOrder[k] \in DOMAIN hours
                     THEN Member(WeekOrder[k], hours[WeekOrder[k]]) ELSE << >>],
                  LAMBDA member : member # << >>),
        <<"}">>, depth)

RenderDentist(d, depth) ==
  Block(<<"{">>,
        << Member(<<"i","d">>, d.id), Member(<<"n","a","m","e">>, d.name),
           Member(<<"d","e","s","c","r","i","p","t","i","o","n">>, d.description),
           Member(<<"s","h","o","r","t","D","e","s","c","r","i","p","t","i","o","n">>, d.shortDescription),
           Member(<<"c","a","t","e","g","o","r","y">>, d.category), Member(<<"a","d","d","r","e","s","s">>, d.address),
           Member(<<"l","a","t","i","t","u","d","e">>, d.latitude), Member(<<"l","o","n","g","i","t","u","d","e">>, d.longitude),
           Member(<<"p","h","o","n","e">>, d.phone), Member(<<"w","e","b","s","i","t","e">>, d.website),
           Member(<<"h","o","u","r","s">>, RenderHours(d.hours, depth + 2)),
           Member(<<"a","v","e","r","a","g","e","R","a","t","i","n","g">>, d.averageRating),
           Member(<<"r","e","v","i","e","w","s">>,
                  Block(<<"[">>, [k \in DOMAIN d.reviews |->
                                 RenderReview(d.reviews[k], depth + 4)], <<"]">>, depth + 2)),
           Member(<<"n","e","u","r","o","d","i","v","e","r","g","e","n","t","_","m","e","n","t","i","o","n","s">>,
                  RenderMentions(d.neurodivergent_mentions, depth + 2)) >>,
        <<"}">>, depth)

\* the text JSON.stringify(dentists, null, 2) writes for the tree
Render(tree) ==
  Block(<<"[">>, [k \in DOMAIN tree |-> RenderDentist(tree[k], 2)], <<"]">>, 0)

ExportLine == <<"e","x","p","o","r","t"," ","c","o","n","s","t"," ","m","o","c","k","S","e","r","v","i","c","e","s",":"," ","S","e","r","v","i","c","e","[","]"," ","="," ">>

\* the template of lines 756-797 and of update_services.js, lines 78-80
\* and 120-122
FileText(interfaces, array) ==
  interfaces \o << "\n", "\n" >> \o ExportLine \o array \o << ";" >>

\* tsContent of saveDentistsData, lines 756-797
tsContent(ds) == FileText(Interfaces, Render(stringify(ds)))

---------------------------------------------------------------------------
(* update_services.js *)

\* a file that does not exist, and a file with its text
Missing == [exists |-> FALSE, text |-> << >>]

File(text) == [exists |-> TRUE, text |-> text]

\* content.match(/export const mockServices: Service\[\] = ([\s\S]*);/),
\* lines 42 and 63: the group runs to the last ";" of the content
MatchArray(content) ==
  LET semis == { k \in 1..Len(content) : content[k] = ";" }
      last  == CHOOSE k \in semis : \A o \in semis : o <= k
      start == indexOf(content, ExportLine)
  IN  IF semis = {} \/ start = -1 \/ start + Len(ExportLine) >= last
      THEN [matched |-> FALSE, array |-> << >>]
      ELSE [matched |-> TRUE,
            array |-> SubSeq(content, start + Len(ExportLine) + 1, last - 1)]

\* content.match(/export interface Review[\s\S]*?export interface
\* Service[\s\S]*?};/), lines 60 and 102: each [\s\S]*? takes as little as
\* it can, so the match ends with the first "};" after the first
\* "export interface Service" after the first "export interface Review"
MatchInterfaces(content) ==
  LET review  == indexOf(content, <<"e","x","p","o","r","t"," ","i","n","t","e","r","f","a","c","e"," ","R","e","v","i","e","w">>)
      service == IF review = -1 THEN -1
                 ELSE IndexFrom(content, <<"e","x","p","o","r","t"," ","i","n","t","e","r","f","a","c","e"," ","S","e","r","v","i","c","e">>,
                                review + Len(<<"e","x","p","o","r","t"," ","i","n","t","e","r","f","a","c","e"," ","R","e","v","i","e","w">>))
      close   == IF service = -1 THEN -1
                 ELSE IndexFrom(content, <<"}",";">>,
                                service + Len(<<"e","x","p","o","r","t"," ","i","n","t","e","r","f","a","c","e"," ","S","e","r","v","i","c","e">>))
  IN  IF close = -1 THEN [matched |-> FALSE, text |-> << >>]
      ELSE [matched |-> TRUE, text |-> substring(content, review, close + 2)]

\* createMockDentist(id, name, location) of update_services.js, lines
\* 142-238, as JSON.stringify writes its strings and numbers; latitude and
\* longitude are 40.7128 + parseInt(id) * 0.01 and -74.0060 + parseInt(id)
\* * 0.01 in doubles, written here for the ids 1, 2, 3 of lines 114-116
createMockDentistFor(id, name, location) ==
  LET n        == DigitsValue(id)
      MockLatitude  == << <<"4","0",".","7","2","2","8">>, <<"4","0",".","7","3","2","8","0","0","0","0","0","0","0","0","0","0","5">>, <<"4","0",".","7","4","2","8">> >>
      MockLongitude == << <<"-","7","3",".","9","9","6">>, <<"-","7","3",".","9","8","6">>, <<"-","7","3",".","9","7","6">> >>
      intro    == name \o <<" ","i","s"," ","a"," ","d","e","n","t","a","l"," ","p","r","a","c","t","i","c","e"," ","t","h","a","t"," ","s","p","e","c","i","a","l","i","z","e","s"," ","i","n"," ","p","r","o","v","i","d","i","n","g"," ","a"," ","c","o","m","f","o","r","t","a","b","l","e"," ","e","n","v","i","r","o","n","m","e","n","t"," ","f","o","r"," ","p","a","t","i","e","n","t","s"," ","w","i","t","h"," ","s","p","e","c","i","a","l"," ","n","e","e","d","s",","," ","i","n","c","l","u","d","i","n","g"," ","t","h","o","s","e"," ","w","i","t","h"," ","a","u","t","i","s","m",","," ","A","D","H","D",","," ","a","n","d"," ","a","n","x","i","e","t","y",".">>
      staff    == <<"O","u","r"," ","s","t","a","f","f"," ","i","s"," ","t","r","a","i","n","e","d"," ","t","o"," ","w","o","r","k"," ","w","i","t","h"," ","n","e","u","r","o","d","i","v","e","r","g","e","n","t"," ","p","a","t","i","e","n","t","s"," ","o","f"," ","a","l","l"," ","a","g","e","s",".">>
      comment1 == <<"M","y"," ","c","h","i","l","d"," ","h","a","s"," ","a","u","t","i","s","m"," ","a","n","d"," ">> \o name \o <<" ","w","a","s"," ","i","n","c","r","e","d","i","b","l","y"," ","p","a","t","i","e","n","t"," ","a","n","d"," ","u","n","d","e","r","s","t","a","n","d","i","n","g",".">>
      comment2 == <<"G","r","e","a","t"," ","f","o","r"," ","p","a","t","i","e","n","t","s"," ","w","i","t","h"," ","a","n","x","i","e","t","y","."," ","T","h","e"," ","s","t","a","f","f"," ","i","s"," ","v","e","r","y"," ","a","c","c","o","m","m","o","d","a","t","i","n","g"," ","a","n","d"," ","t","h","e"," ","e","n","v","i","r","o","n","m","e","n","t"," ","i","s"," ","c","a","l","m","i","n","g",".">>
      Mention(keyword, context, score) ==
        [keyword |-> stringifyString(keyword), context |-> stringifyString(context),
         sentiment |-> stringifyString(<<"P","o","s","i","t","i","v","e">>), sentiment_score |-> score]
      Sourced(keyword, context, score) ==
        [keyword |-> stringifyString(keyword), context |-> stringifyString(context),
         source |-> stringifyString(<<"D","e","s","c","r","i","p","t","i","o","n">>),
         sentiment |-> stringifyString(<<"P","o","s","i","t","i","v","e">>), sentiment_score |-> score]
  IN  [id               |-> stringifyString(id),
       name             |-> stringifyString(name),
       description      |-> stringifyString(intro \o <<" ">> \o staff),
       shortDescription |-> stringifyString(<<"D","e","n","t","a","l"," ","p","r","a","c","t","i","c","e"," ","s","p","e","c","i","a","l","i","z","i","n","g"," ","i","n"," ","c","a","r","e"," ","f","o","r"," ","p","a","t","i","e","n","t","s"," ","w","i","t","h"," ","s","p","e","c","i","a","l"," ","n","e","e","d","s"," ","i","n"," ">> \o location \o <<".">>),
       category         |-> stringifyString(<<"D","e","n","t","i","s","t">>),
       address          |-> stringifyString(String(100 + n * 100) \o <<" ","M","a","i","n"," ","S","t","r","e","e","t",","," ">> \o location \o <<","," ","N","Y">>),
       latitude         |-> MockLatitude[n],
       longitude        |-> MockLongitude[n],
       phone            |-> stringifyString(<<"(","2","1","2",")"," ","5","5","5","-">> \o String(1000 + n * 1000)),
       website          |-> stringifyString(<<"h","t","t","p","s",":","/","/">> \o SelectSeq(toLowerCase(name), LAMBDA c : c # " ") \o <<".","c","o","m">>),
       hours            |-> [d \in Days |->
                               stringifyString(IF d \in { <<"S","a","t","u","r","d","a","y">>, <<"S","u","n","d","a","y">> } THEN <<"C","l","o","s","e","d">>
                                               ELSE IF d = <<"F","r","i","d","a","y">> THEN <<"9",":","0","0"," ","A","M"," ","-"," ","3",":","0","0"," ","P","M">>
                                               ELSE <<"9",":","0","0"," ","A","M"," ","-"," ","5",":","0","0"," ","P","M">>)],
       averageRating    |-> <<"4",".","7">>,
       reviews          |-> <<
         [id |-> stringifyString(id \o <<"-","1">>), serviceId |-> stringifyString(id),
          rating |-> <<"5">>,
          comment |-> stringifyString(comment1 \o <<" ","T","h","e","y"," ","t","o","o","k"," ","t","h","e"," ","t","i","m","e"," ","t","o"," ","e","x","p","l","a","i","n"," ","e","v","e","r","y","t","h","i","n","g"," ","a","n","d"," ","m","a","d","e"," ","t","h","e"," ","v","i","s","i","t"," ","s","t","r","e","s","s","-","f","r","e","e",".">>),
          author |-> stringifyString(<<"P","a","r","e","n","t"," ","R","e","v","i","e","w">>),
          source |-> stringifyString(<<"G","o","o","g","l","e"," ","M","a","p","s">>),
          date |-> stringifyString(<<"2","0","2","5","-","0","2","-","1","5">>),
          neurodivergent_mentions |-> << Mention(<<"a","u","t","i","s","m">>, comment1, <<"0",".","8">>) >>],
         [id |-> stringifyString(id \o <<"-","2">>), serviceId |-> stringifyString(id),
          rating |-> <<"4">>,
          comment |-> stringifyString(comment2),
          author |-> stringifyString(<<"P","a","t","i","e","n","t"," ","R","e","v","i","e","w">>),
          source |-> stringifyString(<<"G","o","o","g","l","e"," ","M","a","p","s">>),
          date |-> stringifyString(<<"2","0","2","5","-","0","1","-","2","0">>),
          neurodivergent_mentions |-> << Mention(<<"a","n","x","i","e","t","y">>, comment2, <<"0",".","7">>) >>] >>,
       neurodivergent_mentions |->
         << Sourced(<<"a","u","t","i","s","m">>, intro, <<"0",".","6">>), Sourced(<<"A","D","H","D">>, intro, <<"0",".","6">>),
            Sourced(<<"a","n","x","i","e","t","y">>, intro, <<"0",".","6">>), Sourced(<<"s","p","e","c","i","a","l"," ","n","e","e","d","s">>, intro, <<"0",".","6">>),
            Sourced(<<"n","e","u","r","o","d","i","v","e","r","g","e","n","t">>, staff, <<"0",".","7">>) >>]

\* lines 113-117
mockDentists ==
  << createMockDentistFor(<<"1">>, <<"S","p","e","c","t","r","u","m"," ","D","e","n","t","a","l"," ","C","a","r","e">>, <<"M","a","n","h","a","t","t","a","n">>),
     createMockDentistFor(<<"2">>, <<"G","e","n","t","l","e"," ","D","e","n","t","a","l"," ","C","a","r","e">>, <<"B","r","o","o","k","l","y","n">>),
     createMockDentistFor(<<"3">>, <<"C","a","l","m"," ","K","i","d","s"," ","D","e","n","t","i","s","t","r","y">>, <<"Q","u","e","e","n","s">>) >>

\* createMockDentistData(), lines 92-133: both files are written with the
\* declarations matched in mockServices.ts and the three mock dentists
createMockDentistData(files) ==
  IF ~files.mockServices.exists THEN files
  ELSE LET interfaceMatch == MatchInterfaces(files.mockServices.text)
       IN  IF ~interfaceMatch.matched THEN files
           ELSE LET mockFile == File(FileText(interfaceMatch.text, Render(mockDentists)))
                IN  [dentistServices |-> mockFile, mockServices |-> mockFile]

\* the callback of exec, lines 17-87: the two data files as it leaves
\* them, for the outcome of the scraper process and the files it finds
update_services(error, files) ==
  IF error THEN files
  ELSE IF ~files.dentistServices.exists THEN createMockDentistData(files)
  ELSE LET dentistServicesMatch == MatchArray(files.dentistServices.text)
       IN  IF ~dentistServicesMatch.matched \/ trim(dentistServicesMatch.array) = <<"[","]">>
           THEN createMockDentistData(files)
           ELSE IF ~files.mockServices.exists THEN files
           ELSE LET interfaceMatch == MatchInterfaces(files.mockServices.text)
                IN  IF ~interfaceMatch.matched THEN files
                    ELSE [files EXCEPT !.mockServices =
                            File(FileText(interfaceMatch.text, dentistServicesMatch.array))]

\* the collections run hands to saveDentistsData in the files of the
\* calls: one entity, and the placeholder after a scraped entity
SavedCollections ==
  { << e >> : e \in CallEntities }
  \cup { << e, createMockDentist >> : e \in CallEntities \ { createMockDentist } }

\* mockServices.ts: absent, as the repository holds it (the placeholder's
\* collection under the declarations), and as an earlier update left it
MockFiles ==
  LET repository == File(tsContent(<< createMockDentist >>))
  IN  { Missing, repository,
        update_services(FALSE, [dentistServices |-> repository,
                                mockServices |-> repository]).mockServices }

\* node update_services.js once the scraper process has ended: with or
\* without an error, with dentistServices.ts as saveDentistsData wrote it
\* or absent
CallUpdate ==
  /\ call = NoCall
  /\ \E error \in BOOLEAN, ds \in { << >> } \cup SavedCollections, mock \in MockFiles :
       \E files \in { [dentistServices |-> IF ds = << >> THEN Missing
                                            ELSE File(tsContent(ds)),
                       mockServices |-> mock] } :
          \E result \in { update_services(error, files) } :
             call' = [fn |-> "update_services", error |-> error, ds |-> ds,
                      files |-> files, result |-> result]
  /\ UNCHANGED pipelineVars

\* the method has returned or raised: the next application starts afresh
CallReturn ==
  /\ call # NoCall
  /\ call' = NoCall
  /\ UNCHANGED pipelineVars

CallNext ==
  \/ CallFormatDate
  \/ CallMatch
  \/ CallScan
  \/ CallGetContext
  \/ CallAnnotate
  \/ CallAnalyzeSentiment
  \/ CallSave
  \/ CallExtractDetails
  \/ CallUpdate
  \/ CallReturn

CallSpec == CallInit /\ [][CallNext]_vars

---------------------------------------------------------------------------
(* The two scroll loops on their own, over every feed *)

\* a scroll loop at its first poll: scrollResults after line 124, or
\* extractReviews after line 452 for an entity whose page has a Reviews tab
ScrollInit ==
  /\ pc \in {"listPoll", "reviewLoop"}
  /\ views = IF pc = "reviewLoop" THEN 2 ELSE 0
  /\ faults = 0
  /\ feedPresent = TRUE
  /\ feedKind \in {"arbitrary", "incremental"}
  /\ page = IF pc = "reviewLoop" THEN PageMany ELSE PageBroken
  /\ ceiling \in 0..(IF pc = "reviewLoop" THEN Min(Len(page.raw), MaxFeed) ELSE MaxFeed)
  /\ feedCount \in IF feedKind = "incremental" THEN {0} ELSE 0..ceiling
  /\ lastCount = 0
  /\ itemCount = 0
  /\ reviewCount = 0
  /\ scrollAttempts = 0
  /\ ceilRun = 0
  /\ detail = IF pc = "reviewLoop" THEN extractDentistDetails(PageMany, "none", 1)
              ELSE NoDetail
  /\ dentists = << >>
  /\ currentId = IF pc = "reviewLoop" THEN NextId(1) ELSE 1
  /\ i = 0
  /\ nItems = IF pc = "reviewLoop" THEN 1 ELSE 0
  /\ log = IF pc = "reviewLoop" THEN << LogEntry(0, "clicked") >> ELSE << >>
  /\ runDentists = << >>
  /\ written = FALSE
  /\ artifact = NoArtifact
  /\ writeFailed = FALSE
  /\ outcome = "running"
  /\ call = NoCall

ScrollNext ==
  \/ ListPoll
  \/ ListScroll
  \/ ListFinal
  \/ ReviewPoll
  \/ ReviewScroll
  \/ ReviewData

\* the awaited steps of a loop always complete: the loop is not suspended
\* for ever between two of its steps
ScrollSpec == ScrollInit /\ [][ScrollNext]_vars /\ WF_vars(ScrollNext)

---------------------------------------------------------------------------
(* Properties of the run *)

\* whether a keyword of the taxonomy occurs in text as a whole word,
\* whatever the case of its letters
HasKeyword(text) ==
  \E n \in DOMAIN KEYWORD_PATTERNS : PatternMatch(text, KEYWORD_PATTERNS[n]) >= 0

\* the page texts that hold a keyword
KeywordTexts == {text \in PageTexts : HasKeyword(text)}

\* the description and the review comments of an entity
TextsOf(dentist) ==
  {dentist.description} \cup {dentist.reviews[r].comment : r \in DOMAIN dentist.reviews}

\* whether the item in progress was visited with success and has been annotated
Annotated == pc = "goBack" /\ detail.ok

\* C1: a visited entity whose detail extraction succeeded is in the
\* accepted set if and only if the annotation produced at least one mention
\* for it, which is if and only if a keyword occurs in its final description
\* or in the comment of one of its harvested reviews; every accepted entity
\* carries at least one mention.
AcceptedIffMentioned ==
  /\ Annotated =>
       LET accepted == log[Len(log)].outcome = "accepted"
       IN  /\ accepted <=> Len(detail.dentist.neurodivergent_mentions) > 0
           /\ accepted <=> TextsOf(detail.dentist) \cap KeywordTexts # {}
           /\ accepted <=> (Len(dentists) > 0 /\ dentists[Len(dentists)] = detail.dentist)
           /\ TextsOf(detail.dentist) \subseteq PageTexts
  /\ \A k \in DOMAIN dentists : Len(dentists[k].neurodivergent_mentions) > 0

\* C1, its case: an entity accepted for the comment of a review alone
AcceptedForReviewAlone ==
  /\ Annotated
  /\ log[Len(log)].outcome = "accepted"
  /\ detail.dentist.description \notin KeywordTexts
  /\ Len(detail.dentist.reviews) >= 2

\* the ids of the items the log holds as accepted, in the order of the log
RECURSIVE AcceptedIds(_, _)
AcceptedIds(entries, n) ==
  IF n = 0 THEN << >>
  ELSE AcceptedIds(entries, n - 1)
       \o (IF entries[n].outcome = "accepted" THEN << entries[n].id >> ELSE << >>)

\* whether extractDentists has returned into run
Returned == pc \in {"mock", "save", "close", "done"}

\* C2: the items are attempted in list order, one log entry each; once
\* extractDentists has returned every item of the capped list was attempted,
\* whatever failed on the way, and the entities it returns are the accepted
\* ones, in that order.
EveryItemAttempted ==
  /\ \A k \in DOMAIN log : log[k].item = k - 1
  /\ Len(log) <= nItems
  /\ (Returned /\ outcome # "failed" /\ nItems > 0) => Len(log) = nItems
  /\ AcceptedIds(log, Len(log)) = [k \in DOMAIN dentists |-> dentists[k].id]
  /\ pc = "mock" => runDentists = dentists

\* C2, its case: an item that failed, and a later item accepted and returned
AcceptedAfterFailure ==
  /\ pc = "mock"
  /\ \E k \in DOMAIN log : \E m \in DOMAIN log :
        /\ k < m
        /\ log[k].outcome \in {"exception", "null"}
        /\ log[m].outcome = "accepted"
        /\ runDentists[Len(runDentists)].id = log[m].id

\* whether the scroll loop in progress has ended, by its own test or by a raise
LoopEnded == pc \in {"listFinal", "extractDentists", "annotate"}

\* C3: each scroll loop ends, whatever the feed does, also when the
\* count never reaches the target and keeps changing between polls.
ScrollLoopsTerminate == <>LoopEnded

\* C4: no load-more is triggered after a poll that observed a count at or
\* above the target of the loop.
NoScrollAtTarget ==
  /\ pc = "listScroll" => itemCount < MAX_RESULTS
  /\ pc = "reviewScroll" => reviewCount < MAX_REVIEWS_PER_DENTIST

\* whether the list loop, or the review loop, has ended by its own test
ListLoopDone == pc = "listFinal"

ReviewLoopDone == pc = "reviewLoop" /\ scrollAttempts >= maxScrollAttempts

\* C5: on a feed that starts empty and grows by one per trigger up to a
\* ceiling below the target, a loop ends by its own test only with the
\* count at the ceiling, observed there by its last polls in a row: once
\* for the list loop, maxScrollAttempts times for the review loop.
IncrementalFeedRunsToCeiling ==
  /\ (feedKind = "incremental" /\ ceiling < MAX_RESULTS /\ ListLoopDone)
        => (feedCount = ceiling /\ ceilRun >= 1)
  /\ (feedKind = "incremental" /\ ceiling < MAX_REVIEWS_PER_DENTIST /\ ReviewLoopDone)
        => (feedCount = ceiling /\ ceilRun >= maxScrollAttempts)

\* C6: the collection run hands to saveDentistsData is never empty; it
\* is the placeholder alone when extractDentists returned no entity, and
\* the returned entities themselves otherwise; what is written is that
\* collection.
WrittenCollectionNeverEmpty ==
  /\ (pc = "save" \/ written) =>
        /\ Len(runDentists) > 0
        /\ runDentists = IF Len(dentists) = 0 THEN << createMockDentist >> ELSE dentists
  /\ artifact.exists => artifact.services = runDentists

\* C6, its case: the placeholder written after a run whose items were all
\* attempted and none accepted
PlaceholderWritten ==
  /\ artifact.exists
  /\ artifact.services = << createMockDentist >>
  /\ Len(log) = MAX_RESULTS
  /\ \A k \in DOMAIN log : log[k].outcome # "accepted"

\* C7: a write that fails is fatal: the run does not complete.
WriteFailureIsFatal == writeFailed => outcome # "completed"

\* C8: a run always comes to call the writer, whatever the page
\* automation raised on the way.
RunAlwaysWrites == pc = "done" => written

\* C9: the hours of every entity record have the seven day names as keys.
HoursHaveSevenDays ==
  /\ detail.ok => DOMAIN detail.dentist.hours = DOMAIN getDefaultHours
  /\ \A k \in DOMAIN dentists : DOMAIN dentists[k].hours = DOMAIN getDefaultHours

\* whether the ids of a collection are pairwise distinct
DistinctIds(ds) ==
  \A a \in DOMAIN ds : \A b \in DOMAIN ds : a # b => ds[a].id # ds[b].id

\* C10: the ids of the entities of one artifact are pairwise distinct,
\* and so are the ids of the accepted entities at any time.
IdsPairwiseDistinct ==
  /\ DistinctIds(dentists)
  /\ DistinctIds(runDentists)
  /\ DistinctIds(artifact.services)

\* C10, its case: an artifact of two entities, written by a run in which
\* the page automation raised
TwoEntitiesWritten ==
  /\ artifact.exists
  /\ Len(artifact.services) >= 2
  /\ faults > 0

\* the entity in progress, when it has one, and the accepted entities
EntityRecords ==
  (IF detail.ok THEN {detail.dentist} ELSE {})
  \cup {dentists[k] : k \in DOMAIN dentists}

\* whether the reviews of an entity name it as their owner and carry its id
\* and their 1-based position as their own id
ReviewsNamed(dentist) ==
  \A k \in DOMAIN dentist.reviews :
     /\ dentist.reviews[k].serviceId = dentist.id
     /\ dentist.reviews[k].id = dentist.id \o << "-" >> \o String(k)

\* C11: the review at position k of an entity has the id of the entity
\* as serviceId and "{entity id}-{k}" as id, however many earlier entities
\* were rejected or failed.
ReviewIdsFollowEntity == \A d \in EntityRecords : ReviewsNamed(d)

\* C11, its case: an accepted entity with two reviews whose id is not the
\* first, an earlier entity having been rejected
ReviewsOfLaterEntity ==
  /\ Len(dentists) > 0
  /\ dentists[1].id = <<"2">>
  /\ Len(dentists[1].reviews) = 2
  /\ dentists[1].reviews[2].id = <<"2","-","2">>
  /\ log[1].outcome = "rejected"

\* C12: no entity has more than MAX_REVIEWS_PER_DENTIST reviews.
ReviewsCapped == \A d \in EntityRecords : Len(d.reviews) <= MAX_REVIEWS_PER_DENTIST

\* C12, its case: the feed shows more reviews than the cap when the harvest
\* ends, and the entity gets as many as the cap
MoreHarvestedThanKept ==
  /\ pc = "annotate"
  /\ detail.ok
  /\ feedCount <= Len(page.raw)
  /\ Len(reviewData(page.raw, feedCount)) > MAX_REVIEWS_PER_DENTIST
  /\ Len(detail.dentist.reviews) = MAX_REVIEWS_PER_DENTIST


---------------------------------------------------------------------------
(* Relative dates *)

Units == {"year", "month", "week", "day"}

UnitText(unit) ==
  CASE unit = "year" -> <<"y","e","a","r">> [] unit = "month" -> <<"m","o","n","t","h">>
    [] unit = "week" -> <<"w","e","e","k">> [] unit = "day" -> <<"d","a","y">>

\* "a <unit> ago" or "<N> <unit>s ago" with a decimal N occurs in the phrase
RecognizedPhrase(dateStr) ==
  \E unit \in Units :
     \/ includes(dateStr, <<"a"," ">> \o UnitText(unit) \o <<" ","a","g","o">>)
     \/ \E q \in 1..Len(dateStr) :
          /\ dateStr[q] \in Digits
          /\ OccursAt(dateStr, << " " >> \o UnitText(unit) \o <<"s"," ","a","g","o">>, q)

\* C13: for every phrase that is not of a recognized form, formatDate
\* raises no error and returns today's date, the date of the host's `now`
\* as line 607 renders it.
UnrecognizedFallsBack ==
  (call.fn = "formatDate" /\ ~RecognizedPhrase(call.dateStr))
     => /\ ~call.result.raised
        /\ call.result.value = NowISO(call.clock)

\* what the recognized phrases of DatePhrases mean: the unit and the count
PhraseMeaning ==
  { << <<"a"," ","y","e","a","r"," ","a","g","o">>, "year", 1 >>, << <<"2"," ","y","e","a","r","s"," ","a","g","o">>, "year", 2 >>,
    << <<"1","0"," ","y","e","a","r","s"," ","a","g","o">>, "year", 10 >>, << <<"a"," ","m","o","n","t","h"," ","a","g","o">>, "month", 1 >>,
    << <<"3"," ","m","o","n","t","h","s"," ","a","g","o">>, "month", 3 >>, << <<"1","4"," ","m","o","n","t","h","s"," ","a","g","o">>, "month", 14 >>,
    << <<"a"," ","w","e","e","k"," ","a","g","o">>, "week", 1 >>, << <<"2"," ","w","e","e","k","s"," ","a","g","o">>, "week", 2 >>,
    << <<"5"," ","w","e","e","k","s"," ","a","g","o">>, "week", 5 >>, << <<"a"," ","d","a","y"," ","a","g","o">>, "day", 1 >>,
    << <<"5"," ","d","a","y","s"," ","a","g","o">>, "day", 5 >>, << <<"4","0"," ","d","a","y","s"," ","a","g","o">>, "day", 40 >>,
    << <<"E","d","i","t","e","d"," ","2"," ","w","e","e","k","s"," ","a","g","o">>, "week", 2 >> }

\* the reference date R less N units, rolled over as the calendar does
Subtracted(clock, unit, n) ==
  CASE unit = "year"  -> NewDate(clock.year - n, clock.month, clock.day)
    [] unit = "month" -> NewDate(clock.year, clock.month - n, clock.day)
    [] unit = "week"  -> NewDate(clock.year, clock.month, clock.day - 7 * n)
    [] unit = "day"   -> NewDate(clock.year, clock.month, clock.day - n)

\* C14: for a recognized phrase with count N, formatDate returns the
\* reference date (the host's local date) less N years, N months, 7N days
\* or N days, with calendar rollover.
RecognizedSubtracts ==
  call.fn = "formatDate" =>
    \A pm \in PhraseMeaning :
       call.dateStr = pm[1] =>
         /\ ~call.result.raised
         /\ call.result.value = ISODate(Subtracted(call.clock, pm[2], pm[3]))

---------------------------------------------------------------------------
(* The matcher *)

\* phrase occurs at 0-based position p of text, letters compared without
\* regard to case
OccursIgnoringCase(text, phrase, p) ==
  /\ p + Len(phrase) <= Len(text)
  /\ \A k \in 1..Len(phrase) : LowerChar(text[p + k]) = LowerChar(phrase[k])

\* phrase occurs in text as a whole word: an occurrence not immediately
\* preceded and not immediately followed by a word character
OccursWholeWord(text, phrase) ==
  \E p \in 0..Len(text) :
     /\ OccursIgnoringCase(text, phrase, p)
     /\ p = 0 \/ ~IsWordChar(text[p])
     /\ p + Len(phrase) = Len(text) \/ ~IsWordChar(text[p + Len(phrase) + 1])

\* C15: the compiled pattern of a taxonomy phrase matches a text if and
\* only if the phrase occurs in it, case-insensitively, as a whole word.
MatchIffWholeWord ==
  call.fn = "match" =>
    (call.result # -1 <=> OccursWholeWord(call.text, NEURODIVERGENT_KEYWORDS[call.n]))

\* a match found after an earlier occurrence of the phrase inside a longer
\* word, in a casing other than the taxonomy's
MatchedPastLongerWord ==
  /\ call.fn = "match"
  /\ call.result > 0
  /\ \E p \in 0..(call.result - 1) :
        OccursIgnoringCase(call.text, NEURODIVERGENT_KEYWORDS[call.n], p)
  /\ ~OccursAt(call.text, NEURODIVERGENT_KEYWORDS[call.n], call.result)

---------------------------------------------------------------------------
(* Sentiment *)

\* C19: the label is Positive when the comparative value is above 0.05,
\* Negative when it is below -0.05 and Neutral otherwise, 0.05 and -0.05
\* included; an empty text is labelled Neutral with score 0.
SentimentThresholds ==
  call.fn = "analyzeSentiment" =>
    LET sc == call.analysis.score
        tk == call.analysis.tokens
    IN  /\ call.result.category \in {"Positive", "Negative", "Neutral"}
        /\ call.result.category = "Positive" <=> 100 * sc > 5 * tk
        /\ call.result.category = "Negative" <=> 100 * sc < -5 * tk
        /\ call.text = << >> => call.result = [category |-> "Neutral", score |-> 0]

\* a comparative value of exactly 0.05 is labelled Neutral
NeutralAtThreshold ==
  /\ call.fn = "analyzeSentiment"
  /\ call.analysis = [score |-> 1, tokens |-> 20]
  /\ call.result = [category |-> "Neutral", score |-> 5]

---------------------------------------------------------------------------
(* The mentions of one text *)

\* the place in the taxonomy of the phrase a keyword is an occurrence of
PhraseIndex(keyword) ==
  CHOOSE n \in DOMAIN KEYWORD_PATTERNS : KEYWORD_PATTERNS[n] = toLowerCase(keyword)

\* C16: the mentions of one scanned text hold each taxonomy phrase at most
\* once and follow the order of the taxonomy: the places of their phrases
\* in the taxonomy increase strictly.
MentionsInTaxonomyOrder ==
  call.fn = "scan" =>
    /\ \A k \in DOMAIN call.result :
          \E n \in DOMAIN KEYWORD_PATTERNS :
             KEYWORD_PATTERNS[n] = toLowerCase(call.result[k].keyword)
    /\ \A a, b \in DOMAIN call.result :
          a < b => PhraseIndex(call.result[a].keyword) < PhraseIndex(call.result[b].keyword)

\* a text whose first phrase by position comes last in the taxonomy and in
\* which another phrase occurs twice
LaterPhraseFirstInText ==
  /\ call.fn = "scan"
  /\ call.text = <<"p","e","d","i","a","t","r","i","c"," ","a","u","t","i","s","m"," ","a","n","d"," ","A","N","X","I","E","T","Y",","," ","a","n","x","i","e","t","y">>
  /\ Len(call.result) = 3
  /\ call.result[1].keyword = <<"a","u","t","i","s","m">>
  /\ call.result[2].keyword = <<"A","N","X","I","E","T","Y">>
  /\ call.result[3].keyword = <<"p","e","d","i","a","t","r","i","c"," ","a","u","t","i","s","m">>

\* C17: the keyword of every mention is the taxonomy phrase as
\* NEURODIVERGENT_KEYWORDS lists it.
KeywordIsCanonical ==
  call.fn = "scan" =>
    \A k \in DOMAIN call.result :
       \E n \in DOMAIN NEURODIVERGENT_KEYWORDS :
          call.result[k].keyword = NEURODIVERGENT_KEYWORDS[n]

---------------------------------------------------------------------------
(* The context window *)

\* C18: the context truncates no word: it lies in the text from the start
\* of the text or from just after a space, to the end of the text or to
\* just before a space.
ContextKeepsWords ==
  call.fn = "getContext" =>
    \E p \in 0..Len(call.text) :
       /\ OccursAt(call.text, call.result, p)
       /\ p = 0 \/ call.text[p] = " "
       /\ \/ p + Len(call.result) = Len(call.text)
          \/ call.text[p + Len(call.result) + 1] = " "

---------------------------------------------------------------------------
(* Entity-level and review-level mentions *)

\* the number of review-level mentions of the reviews before review r
RECURSIVE MentionsBefore(_, _)
MentionsBefore(reviews, r) ==
  IF r <= 1 THEN 0
  ELSE MentionsBefore(reviews, r - 1) + Len(MentionsOf(reviews[r - 1]))

\* the entity-level mentions are nd mentions of the description and then,
\* review by review, the mentions of each review under its author's name
MentionsMirrorReviews(dentist, scanned) ==
  LET all     == dentist.neurodivergent_mentions
      reviews == dentist.reviews
      nd      == Len(scanned)
      Same(e, m) == /\ e.keyword = m.keyword
                    /\ e.context = m.context
                    /\ e.sentiment = m.sentiment
                    /\ e.sentiment_score = m.sentiment_score
  IN  /\ Len(all) = nd + MentionsBefore(reviews, Len(reviews) + 1)
      /\ \A k \in 1..nd : all[k].source = <<"D","e","s","c","r","i","p","t","i","o","n">> /\ Same(all[k], scanned[k])
      /\ \A r \in DOMAIN reviews :
            \A k \in DOMAIN MentionsOf(reviews[r]) :
               LET e == all[nd + MentionsBefore(reviews, r) + k]
               IN  /\ e.source = <<"R","e","v","i","e","w"," ","b","y"," ">> \o reviews[r].author
                   /\ Same(e, reviews[r].neurodivergent_mentions[k])
                   /\ DOMAIN reviews[r].neurodivergent_mentions[k]
                        = {"keyword", "context", "sentiment", "sentiment_score"}

\* C20: after annotation the entity-level mentions are the mentions of the
\* description, source "Description", followed in review order by one
\* mention "Review by {author}" per review-level mention, with its keyword,
\* context, sentiment and score.
EntityMentionsMirrorReviews ==
  call.fn = "checkForNeurodivergentMentions" =>
    MentionsMirrorReviews(call.result.dentist, ScanText(call.dentist.description))

\* an entity with a mention in its description and mentions in two reviews
MentionsFromDescriptionAndReviews ==
  /\ call.fn = "checkForNeurodivergentMentions"
  /\ call.dentist.description = <<"W","e"," ","k","n","o","w"," ","A","u","t","i","s","m">>
  /\ Len(call.result.dentist.reviews) = 2
  /\ Len(MentionsOf(call.result.dentist.reviews[1])) = 2
  /\ Len(MentionsOf(call.result.dentist.reviews[2])) = 1
  /\ Len(call.result.dentist.neurodivergent_mentions) = 4
  /\ call.result.dentist.neurodivergent_mentions[2].source = <<"R","e","v","i","e","w"," ","b","y"," ","A","n","o","n","y","m","o","u","s">>
  /\ call.result.dentist.neurodivergent_mentions[4].source = <<"R","e","v","i","e","w"," ","b","y"," ","B","o","b">>

---------------------------------------------------------------------------
(* The fields of an entity *)

\* the entities that have passed lines 203-223
ProcessedRecords ==
  (IF Annotated THEN {detail.dentist} ELSE {}) \cup {dentists[k] : k \in DOMAIN dentists}

\* the page an entity was read from: the pages differ in their names
PageOf(dentist) == CHOOSE pg \in Pages : pg.h1 /\ pg.name = dentist.name

\* the rating each page displays, in ten-thousandths, 0 where its label
\* holds none
DisplayedRating(pg) ==
  IF pg = PagePlain THEN 45000 ELSE IF pg = PageAbout THEN 50000 ELSE 0

RECURSIVE RatingsTotal(_)
RatingsTotal(reviews) ==
  IF reviews = << >> THEN 0 ELSE reviews[1].rating + RatingsTotal(Tail(reviews))

ShortDescriptionDerived ==
  artifact.exists =>
    \A k \in DOMAIN artifact.services :
       LET d == artifact.services[k]
       IN  d.shortDescription =
             IF Len(d.description) <= 100 THEN d.description
             ELSE SubSeq(d.description, 1, 100) \o <<".",".",".">>

---------------------------------------------------------------------------
(* The collection read back from the artifact *)

\* null read where a number was written
NullNumber == NaN - 1

\* whether the backslash at position k opens an escape: an even number of
\* backslashes stands directly before it
OpensEscape(str, k) ==
  /\ str[k] = "\\"
  /\ LET others == { j \in 1..(k - 1) : str[j] # "\\" }
         before == IF others = {} THEN 0
                   ELSE CHOOSE j \in others : \A o \in others : o <= j
     IN  (k - before) % 2 = 1

\* the string a reader of JSON takes from the characters between the quotes
RECURSIVE Unescape(_)
Unescape(str) ==
  IF Len(str) <= 1 THEN str
  ELSE IF Len(str) = 2 THEN (IF str[1] = "\\" THEN << str[2] >> ELSE str)
  ELSE LET mid == Len(str) \div 2
           cut == IF OpensEscape(str, mid) THEN mid + 1 ELSE mid
       IN  Unescape(SubSeq(str, 1, cut)) \o Unescape(SubSeq(str, cut + 1, Len(str)))

\* JSON.parse of the text of a string, of a number and of the website
ParseString(lit) == Unescape(SubSeq(lit, 2, Len(lit) - 1))

ParseNumber(lit, decimals) ==
  IF lit = <<"n","u","l","l">> THEN NullNumber ELSE parseFloat(lit) \div Pow10(4 - decimals)

ParseWebsite(lit) == IF lit = <<"n","u","l","l">> THEN null ELSE Href(ParseString(lit))

ParseSentiment(lit) ==
  CHOOSE label \in DOMAIN SentimentText : SentimentText[label] = ParseString(lit)

ParseMention(j) ==
  LET common == [keyword         |-> ParseString(j.keyword),
                 context         |-> ParseString(j.context),
                 sentiment       |-> ParseSentiment(j.sentiment),
                 sentiment_score |-> ParseNumber(j.sentiment_score, 2)]
  IN  IF "source" \in DOMAIN j
      THEN [keyword |-> common.keyword, context |-> common.context,
            source |-> ParseString(j.source), sentiment |-> common.sentiment,
            sentiment_score |-> common.sentiment_score]
      ELSE common

\* a review without the property is a review without review-level mentions
ParseReview(j) ==
  LET common == [id |-> ParseString(j.id), serviceId |-> ParseString(j.serviceId),
                 rating |-> ParseNumber(j.rating, 0), comment |-> ParseString(j.comment),
                 author |-> ParseString(j.author), source |-> ParseString(j.source),
                 date |-> ParseString(j.date)]
  IN  IF "neurodivergent_mentions" \notin DOMAIN j THEN common
      ELSE [id |-> common.id, serviceId |-> common.serviceId, rating |-> common.rating,
            comment |-> common.comment, author |-> common.author,
            source |-> common.source, date |-> common.date,
            neurodivergent_mentions |->
              [k \in DOMAIN j.neurodivergent_mentions |->
                 ParseMention(j.neurodivergent_mentions[k])]]

ParseDentist(j) ==
  [id               |-> ParseString(j.id),
   name             |-> ParseString(j.name),
   description      |-> ParseString(j.description),
   shortDescription |-> ParseString(j.shortDescription),
   category         |-> ParseString(j.category),
   address          |-> ParseString(j.address),
   latitude         |-> ParseNumber(j.latitude, 4),
   longitude        |-> ParseNumber(j.longitude, 4),
   phone            |-> ParseString(j.phone),
   website          |-> ParseWebsite(j.website),
   hours            |-> [day \in DOMAIN j.hours |-> ParseString(j.hours[day])],
   averageRating    |-> ParseNumber(j.averageRating, 4),
   reviews          |-> [k \in DOMAIN j.reviews |-> ParseReview(j.reviews[k])],
   neurodivergent_mentions |->
     [k \in DOMAIN j.neurodivergent_mentions |->
        ParseMention(j.neurodivergent_mentions[k])]]

---------------------------------------------------------------------------
(* Failures inside one item *)

\* C24: an entity whose review harvest failed (extractReviews logged
\* 'Error extracting reviews:') is skipped: it is not accepted, with or
\* without the reviews collected before the failure.
FailedHarvestSkipsEntity ==
  \A k \in DOMAIN log : log[k].reviewsError => log[k].outcome # "accepted"

\* the fields of an entity record other than those of `fields`
SameOutside(got, clean, fields) ==
  \A f \in (DOMAIN clean) \ fields : got[f] = clean[f]

\* C25: a step of extractDentistDetails that raises while one of address,
\* phone, website, rating, description, coordinates or hours is extracted
\* does not abort the record; that field has its default (empty address or
\* phone, null website, rating 0, the address-based description, the New
\* York coordinates, the default hours) and the other fields are what they
\* are without the raise (the description follows the address it is built
\* from).
FieldFailureTakesDefault ==
  (call.fn = "extractDentistDetails" /\ call.pane.h1 /\ call.fault \notin {"none", "h1", "name"}) =>
    /\ call.result.ok
    /\ LET got   == call.result.dentist
           clean == extractDentistDetails(call.pane, "none", 1).dentist
           texts == {"description", "shortDescription"}
           based == <<"D","e","n","t","a","l"," ","p","r","a","c","t","i","c","e"," ","l","o","c","a","t","e","d"," ","i","n"," ">> \o got.address \o << "." >>
       IN  CASE call.fault = "address" ->
                  /\ got.address = << >>
                  /\ SameOutside(got, clean, {"address"} \cup texts)
             [] call.fault = "phone" ->
                  got.phone = << >> /\ SameOutside(got, clean, {"phone"})
             [] call.fault = "website" ->
                  got.website = null /\ SameOutside(got, clean, {"website"})
             [] call.fault = "rating" ->
                  got.averageRating = 0 /\ SameOutside(got, clean, {"averageRating"})
             [] call.fault \in {"aboutClick", "aboutRead"} ->
                  /\ got.description = based
                  /\ got.shortDescription = based
                  /\ SameOutside(got, clean, texts)
             [] call.fault = "aboutBack" -> SameOutside(got, clean, texts)
             [] call.fault = "url" ->
                  /\ got.latitude = DefaultCoordinates.latitude
                  /\ got.longitude = DefaultCoordinates.longitude
                  /\ SameOutside(got, clean, {"latitude", "longitude"})
             [] OTHER ->
                  got.hours = getDefaultHours /\ SameOutside(got, clean, {"hours"})

---------------------------------------------------------------------------
(* The context of a match *)

\* C26: the context of a mention is a window of the text that contains the
\* occurrence the pattern matched, also when the characters of the keyword
\* occur earlier in the text inside another word.
ContextHoldsMatch ==
  call.fn = "getContext" =>
    \A n \in DOMAIN KEYWORD_PATTERNS :
       LET p == PatternMatch(call.text, KEYWORD_PATTERNS[n])
       IN  (/\ p # -1
            /\ substring(call.text, p, p + Len(KEYWORD_PATTERNS[n])) = call.keyword)
           => \E a \in 0..p :
                 /\ OccursAt(call.text, call.result, a)
                 /\ a + Len(call.result) >= p + Len(call.keyword)

---------------------------------------------------------------------------
(* Navigation *)

\* C27: every click that enters a view is matched by one goBack before the
\* next item is clicked, on every path: whenever an item is about to be
\* clicked the page shows the results list, and no item is attempted twice.
NavigationBalanced ==
  /\ (pc = "item" /\ i < nItems) => views = 0
  /\ \A k, m \in DOMAIN log : log[k].item = log[m].item => k = m


---------------------------------------------------------------------------
(* The mentions of what is written *)

\* an entity with entity-level mentions whose reviews, where they have a
\* list of mentions at all, have one with a mention in it
CarriesMentions(d) ==
  /\ Len(d.neurodivergent_mentions) > 0
  /\ \A r \in DOMAIN d.reviews :
        "neurodivergent_mentions" \in DOMAIN d.reviews[r]
          => Len(d.reviews[r].neurodivergent_mentions) > 0

\* C28: every entity of the collection run hands to saveDentistsData, a
\* scraped one or the placeholder, has at least one entity-level mention,
\* and each of its reviews that has a list of review-level mentions has at
\* least one mention in it.
WrittenEntitiesCarryMentions ==
  (pc = "save" \/ written) =>
     \A k \in DOMAIN runDentists : CarriesMentions(runDentists[k])

\* C28, its case: a written scraped entity with a review that has a list
\* of mentions and a review that has none
MentionedAndSilentReviewWritten ==
  /\ artifact.exists
  /\ artifact.services # << createMockDentist >>
  /\ \E k \in DOMAIN artifact.services :
        LET reviews == artifact.services[k].reviews
        IN  /\ \E r \in DOMAIN reviews : "neurodivergent_mentions" \in DOMAIN reviews[r]
            /\ \E r \in DOMAIN reviews : "neurodivergent_mentions" \notin DOMAIN reviews[r]

---------------------------------------------------------------------------
(* The label and the reported score *)

\* C29: in what analyzeSentiment returns and the mentions carry, the label
\* agrees with the reported score, the comparative value rounded to two
\* decimals: Positive exactly when the reported score is above 0.05,
\* Negative exactly when it is below -0.05, Neutral otherwise.
LabelAgreesWithReportedScore ==
  call.fn = "analyzeSentiment" =>
    /\ call.result.category = "Positive" <=> call.result.score > 5
    /\ call.result.category = "Negative" <=> call.result.score < -5
    /\ call.result.category = "Neutral"  <=> call.result.score \in (-5)..5

---------------------------------------------------------------------------
(* The update of mockServices.ts *)

\* C30: when the scraper process ended without error, dentistServices.ts
\* holds a collection with an entity and mockServices.ts exists,
\* update_services leaves mockServices.ts holding the whole declarations
\* of Review and Service, every field and both closed, followed by the
\* export of exactly that collection; when the scraper process failed it
\* leaves both data files as they were.
UpdateInstallsCollection ==
  call.fn = "update_services" =>
    /\ (~call.error /\ Len(call.ds) > 0 /\ call.files.mockServices.exists)
          => call.result.mockServices
               = File(FileText(Interfaces, Render(stringify(call.ds))))
    /\ call.error => call.result = call.files

=========================================================================
